---- MODULE Spec2Model ----
(***************************************************************************)
(* A model of the evaluation pipeline of aws_agent:                        *)
(*   - BaseEvaluationAgent.evaluate / retrieve_context /                   *)
(*     parse_evaluation_response        (agents/base_agent.py)             *)
(*   - EvaluationRunner.run_stage_1 / run_stage_2 / run_full_evaluation /  *)
(*     _generate_summary                (evaluation/runner.py)             *)
(*   - BedrockEmbedder.create_embedding / create_embeddings_batch          *)
(*                                      (preprocessing/embedder.py)        *)
(*   - OpenSearchVectorStore / LocalVectorStore index_documents            *)
(*                                      (vectorstore/opensearch_client.py) *)
(*   - DocumentChunker                  (preprocessing/chunker.py)         *)
(*     and the /api/chunk endpoint      (api/server.py)                    *)
(*   - EvaluationPipeline.process_document (evaluation/runner.py)          *)
(*   - the token operations of KISTIClient (api/kisti_client.py)           *)
(*                                                                         *)
(* Specifications.  Spec is run_full_evaluation; SpecParse, SpecBatch,     *)
(* SpecEmbed, SpecStore, SpecRetrieve and SpecChunk are one call (or the   *)
(* calls of two writers) of parse_evaluation_response,                     *)
(* create_embeddings_batch, create_embedding, index_documents,             *)
(* retrieve_context and the chunker; SpecPipeline is a sequence of         *)
(* process_document calls and SpecToken a sequence of token operations.    *)
(* They share the variables; the variables of the parts a specification    *)
(* does not run stay idle.                                                 *)
(*                                                                         *)
(* Numbers.  A criterion score s is held as the integer s * ScoreDenom, so *)
(* that fractional scores of the judgment service are exact.  Stage and    *)
(* overall scores are held multiplied by PointScale = 2 * ScoreDenom, which*)
(* makes the weights 0.5 of the source integers.  With ScoreDenom = 2 all  *)
(* values are dyadic and the float arithmetic of the source is exact.      *)
(*                                                                         *)
(* Strings.  A string is a sequence of segments [text, len], each standing *)
(* for the first len characters of the named text; slicing s[:n] is Take.  *)
(* Korean literals of the source are written by ASCII names, with the      *)
(* literal in a comment.                                                   *)
(***************************************************************************)
EXTENDS Integers, Sequences, FiniteSets, TLC

VARIABLES
    pc,               \* position in run_full_evaluation
    ev,               \* position inside the running evaluate() call
    qi,               \* index of the query retrieve_context is working on
    attempt,          \* attempt number of the running create_embedding call
    all_results,      \* retrieve_context: the pooled search hits
    results,          \* stage_1_results and stage_2_results, by key
    stage_1_score, stage_2_score, overall_score, overall_pass,
    summary,          \* value returned by _generate_summary
    outcome,          \* the FullEvaluationResult returned
    evalLog,          \* history: start/end of every evaluate() call
    llm_calls,        \* history: invoke_llm calls per criterion
    embed_calls,      \* history: service invocations of the running create_embedding
    ctx_empty,        \* history: criteria whose retrieved context was empty
    response, parsed, \* parse_evaluation_response: its input and its result
    chunks, bi, embedded_chunks, batch_pc, \* create_embeddings_batch
    batch_failed,     \* history: indices of the chunks whose embedding failed
    emb_entry,        \* create_embedding: called directly or through embed_query
    emb_text,         \* create_embedding: length of its text argument
    emb_attempt,      \* create_embedding: attempt number of the retry wrapper
    emb_pc,           \* create_embedding: trying, returned or raised
    emb_result,       \* create_embedding: the value returned
    emb_log,          \* history: the service invocations of the call
    store_impl,       \* get_vectorstore: the class of the vector store
    client,           \* OpenSearchVectorStore.client: set, or None
    os_index,         \* the OpenSearch index: document by _id
    documents,        \* LocalVectorStore.documents
    new_documents,    \* index_documents: its documents argument
    w_pc,             \* per writer: idle, or inside client.bulk
    w_bulk,           \* per writer: the items of bulk_body not yet applied
    w_errors,         \* per writer: the "errors" flag of the bulk response
    w_ret,            \* per writer: <<n>> when its last index_documents call returned n
    w_stored,         \* per writer: the records its last index_documents call has written
    written,          \* history: the keys the writers have written
    queries,          \* retrieve_context: the queries, in the caller's order
    search_k,         \* retrieve_context: its argument k (0 for None)
    search_results,   \* what vectorstore.search answers to each query
    context_parts,    \* retrieve_context: the blocks of the string returned
    retr_pc,          \* retrieve_context: called or returned
    chunk_entry,      \* the chunking operation that is called
    chunk_size,       \* DocumentChunker.chunk_size, ChunkRequest.chunk_size
    chunk_overlap,    \* DocumentChunker.chunk_overlap, ChunkRequest.chunk_overlap
    document,         \* the document argument of the chunker
    request_text,     \* ChunkRequest.text
    chunk_pc,         \* chunking: called, returned or raised
    chunk_out,        \* chunking: the value returned
    json_paths,       \* run_pipeline: the documents behind its json_paths
    path_i,           \* run_pipeline: the document process_document takes next
    tech_ids,         \* run_pipeline: the tech_id of every processed document
    produced,         \* history: the chunks process_document has cut, per call
    token_info,       \* KISTIClient.token_info
    now,              \* datetime.now()
    token_call        \* the token operation that has just returned, and its value

vars == <<pc, ev, qi, attempt, all_results, results, stage_1_score,
          stage_2_score, overall_score, overall_pass, summary, outcome,
          evalLog, llm_calls, embed_calls, ctx_empty, response, parsed,
          chunks, bi, embedded_chunks, batch_pc, batch_failed,
          emb_entry, emb_text, emb_attempt, emb_pc, emb_result, emb_log,
          store_impl, client, os_index, documents, new_documents, w_pc,
          w_bulk, w_errors, w_ret, w_stored, written,
          queries, search_k, search_results, context_parts, retr_pc,
          chunk_entry, chunk_size, chunk_overlap, document, request_text,
          chunk_pc, chunk_out, json_paths, path_i, tech_ids, produced,
          token_info, now, token_call>>

evalVars == <<pc, ev, qi, attempt, all_results, results, stage_1_score,
              stage_2_score, overall_score, overall_pass, summary, outcome,
              evalLog, llm_calls, embed_calls, ctx_empty>>
parseVars == <<response, parsed>>
batchVars == <<chunks, bi, embedded_chunks, batch_pc, batch_failed>>
embedVars == <<emb_entry, emb_text, emb_attempt, emb_pc, emb_result, emb_log>>
storeVars == <<store_impl, client, os_index, documents, new_documents, w_pc,
               w_bulk, w_errors, w_ret, w_stored, written>>
retrVars == <<queries, search_k, search_results, context_parts, retr_pc>>
chunkVars == <<chunk_entry, chunk_size, chunk_overlap, document, request_text,
               chunk_pc, chunk_out>>
pipeVars == <<json_paths, path_i, tech_ids, produced>>
tokenVars == <<token_info, now, token_call>>
lateVars == <<pipeVars, tokenVars>>
moreVars == <<embedVars, storeVars, retrVars, chunkVars, lateVars>>

\* the variables of a part that is not running
EmbedIdle ==
    /\ emb_entry = "none" /\ emb_text = 0 /\ emb_attempt = 0
    /\ emb_pc = "idle" /\ emb_result = 0 /\ emb_log = <<>>
StoreIdle ==
    /\ store_impl = "none" /\ client = FALSE
    /\ os_index = <<>> /\ documents = <<>> /\ new_documents = <<>>
    /\ w_pc = <<>> /\ w_bulk = <<>> /\ w_errors = <<>> /\ w_ret = <<>>
    /\ w_stored = <<>> /\ written = {}
RetrIdle ==
    /\ queries = <<>> /\ search_k = 0 /\ search_results = <<>>
    /\ context_parts = <<>> /\ retr_pc = "idle"
ChunkIdle ==
    /\ chunk_entry = "none" /\ chunk_size = 0 /\ chunk_overlap = 0
    /\ document = <<>> /\ request_text = <<>>
    /\ chunk_pc = "idle" /\ chunk_out = <<>>
PipeIdle ==
    /\ json_paths = <<>> /\ path_i = 0 /\ tech_ids = <<>> /\ produced = <<>>
TokenIdle ==
    /\ token_info = <<>> /\ now = 0 /\ token_call = <<>>
LateIdle == PipeIdle /\ TokenIdle
MoreIdle == EmbedIdle /\ StoreIdle /\ RetrIdle /\ ChunkIdle /\ LateIdle

----------------------------------------------------------------------------
(* Bounds of the model *)

\* scores are multiples of 1/ScoreDenom
ScoreDenom == 2
\* the judgment service may answer scores from -ScoreSlack/ScoreDenom to
\* 5 + ScoreSlack/ScoreDenom: nothing in the source restricts its answer
ScoreSlack == 1
\* longest "comments" text of a judgment (one more than the summary's cut)
MaxCommentLen == 101
\* longest raw judgment response (one more than the parser's cut)
MaxResponseLen == 501
\* hits one search call returns in the runner's specification
MaxHits == 1
\* chunks handed to create_embeddings_batch
MaxChunks == 3

(* Constants of the program *)

MaxScore == 5            \* "5점 만점", GRADE_MAP's highest key
PassThreshold == 3       \* pass_status = score >= 3
DefaultScore == 3        \* data.get("score", 3)
StageFactor == 10        \* "* 10" of stage_1_score and stage_2_score
OverallCutoff == 70      \* overall_score >= 70
StrongThreshold == 4     \* result.score >= 4
WeakThreshold == 3       \* result.score < 3
RecommendationCut == 100 \* result.comments[:100]
ResponseCut == 500       \* response[:500]
MaxAttempts == 3         \* stop_after_attempt(3)
retrieval_k == 10        \* AWSConfig.retrieval_k
EmbeddingDim == 1536     \* Titan embedding dimension

PointScale == 2 * ScoreDenom

Min(a, b) == IF a <= b THEN a ELSE b

----------------------------------------------------------------------------
(* Strings *)

Lit(text, len) == IF len = 0 THEN <<>> ELSE <<[text |-> text, len |-> len]>>

RECURSIVE StrLen(_)
StrLen(s) == IF s = <<>> THEN 0 ELSE Head(s).len + StrLen(Tail(s))

\* s[:n]
RECURSIVE Take(_, _)
Take(s, n) ==
    IF s = <<>> \/ n <= 0 THEN <<>>
    ELSE IF Head(s).len <= n
         THEN <<Head(s)>> \o Take(Tail(s), n - Head(s).len)
         ELSE <<[Head(s) EXCEPT !.len = n]>>

\* "응답 파싱 실패: " (10 characters)
ParseFailedPrefix == Lit("parse_failed: ", 10)
\* "관련 문서를 찾을 수 없습니다." (17 characters)
NoDocumentsText == Lit("no_related_documents", 17)

----------------------------------------------------------------------------
(* Criteria: the three agents of EvaluationRunner *)

Keys == {"novelty", "progressiveness", "field_applicability"}

\* len(self._get_search_queries()) of the agent behind each key
NumQueries(key) ==
    CASE key = "novelty" -> 4
      [] key = "progressiveness" -> 5
      [] key = "field_applicability" -> 7

----------------------------------------------------------------------------
(* parse_evaluation_response *)

\* Python's round(): half to even, on a score held as q / ScoreDenom
Round(q) ==
    LET fl == q \div ScoreDenom
        rem == q % ScoreDenom
    IN  IF 2 * rem < ScoreDenom THEN fl
        ELSE IF 2 * rem > ScoreDenom THEN fl + 1
        ELSE IF fl % 2 = 0 THEN fl ELSE fl + 1

\* GRADE_MAP.get(n, "보통"): 5 우수, 4 양호, 3 보통, 2 미흡, 1 불인정
GRADE_MAP(n) ==
    CASE n = 5 -> "excellent"
      [] n = 4 -> "good"
      [] n = 3 -> "fair"
      [] n = 2 -> "poor"
      [] n = 1 -> "unacceptable"
      [] OTHER -> "fair"

\* The judgment service's answers.  shape: what the two regular expressions
\* and json.loads make of the text; score_kind: the JSON value under "score".
ScoreRange == (0 - ScoreSlack) .. (MaxScore * ScoreDenom + ScoreSlack)
CommentLens == {0, MaxCommentLen}
ResponseLens == {0, ResponseCut, MaxResponseLen}
ScoreKinds == {"absent", "number", "string", "null", "bool", "nonfinite"}

Responses ==
    { r \in [shape : {"no_json", "invalid_json", "not_an_object", "object"},
             score_kind : ScoreKinds,
             score : ScoreRange,
             comments_len : CommentLens,
             len : ResponseLens] :
        /\ r.shape # "no_json" => r.len > 0
        /\ r.shape = "object" => r.len > r.comments_len
        /\ r.shape # "object" =>
              r.score_kind = "absent" /\ r.score = 0 /\ r.comments_len = 0
        /\ r.score_kind = "bool" => r.score \in {0, ScoreDenom}
        /\ r.score_kind \notin {"number", "bool"} => r.score = 0 }

RawText(r) == Lit("response", r.len)

\* the except branch, lines 172-182
ParseErrorResult(criterion, r) ==
    [criterion |-> criterion, score |-> 0, grade |-> "parse_error",
     comments |-> ParseFailedPrefix \o Take(RawText(r), ResponseCut),
     pass_status |-> FALSE]

\* the try branch, lines 156-170.  A JSON true/false is a Python bool, an
\* int: round() and >= accept it, and it counts as 1/0.
ParsedResult(criterion, r) ==
    LET score == IF r.score_kind = "absent"
                 THEN DefaultScore * ScoreDenom ELSE r.score
    IN  [criterion |-> criterion, score |-> score,
         grade |-> GRADE_MAP(Round(score)),
         comments |-> Lit("llm_comments", r.comments_len),
         pass_status |-> score >= PassThreshold * ScoreDenom]

parse_evaluation_response(criterion, r) ==
    IF r.shape # "object" THEN ParseErrorResult(criterion, r)
    ELSE IF r.score_kind \in {"string", "null", "nonfinite"}
         THEN ParseErrorResult(criterion, r)
         ELSE ParsedResult(criterion, r)

\* the result of evaluate() on an empty context, lines 192-200 (검색실패)
SearchFailedResult(criterion) ==
    [criterion |-> criterion, score |-> 0, grade |-> "search_failed",
     comments |-> NoDocumentsText, pass_status |-> FALSE]

----------------------------------------------------------------------------
(* retrieve_context: lines 91-112, on the pooled hits *)

\* A hit of vectorstore.search: the stored chunk's key and its "_score"
HitKey(r) == <<r.tech_id, r.chunk_index>>

\* lines 92-98: keep the first occurrence of every key
RECURSIVE DedupFrom(_, _)
DedupFrom(rs, seen) ==
    IF rs = <<>> THEN <<>>
    ELSE IF HitKey(Head(rs)) \in seen
         THEN DedupFrom(Tail(rs), seen)
         ELSE <<Head(rs)>> \o DedupFrom(Tail(rs), seen \cup {HitKey(Head(rs))})

RECURSIVE Reverse(_)
Reverse(rs) ==
    IF rs = <<>> THEN <<>> ELSE Append(Reverse(Tail(rs)), Head(rs))

\* a variant of unique_results that keeps the last occurrence of a key,
\* at the place of the last occurrence
unique_results_KeepLast(rs) == Reverse(DedupFrom(Reverse(rs), {}))

unique_results(rs) == DedupFrom(rs, {})

\* a variant of InsertDesc that puts r before the entries of its score
RECURSIVE InsertDesc_BeforeEqual(_, _)
InsertDesc_BeforeEqual(sorted, r) ==
    IF sorted = <<>> THEN <<r>>
    ELSE IF Head(sorted).score > r.score
         THEN <<Head(sorted)>> \o InsertDesc_BeforeEqual(Tail(sorted), r)
         ELSE <<r>> \o sorted

\* line 101: list.sort(key=_score, reverse=True), a stable sort
RECURSIVE InsertDesc(_, _)
InsertDesc(sorted, r) ==
    IF sorted = <<>> THEN <<r>>
    ELSE IF Head(sorted).score >= r.score
         THEN <<Head(sorted)>> \o InsertDesc(Tail(sorted), r)
         ELSE <<r>> \o sorted

RECURSIVE SortDesc(_)
SortDesc(rs) ==
    IF rs = <<>> THEN <<>>
    ELSE InsertDesc(SortDesc(SubSeq(rs, 1, Len(rs) - 1)), rs[Len(rs)])

\* lines 104-112: the numbered blocks that are joined into the context
\* string; no block, the empty string
BuildContext(rs, k, nq) ==
    LET sorted == SortDesc(unique_results(rs))
        n == Min(Len(sorted), k * nq)
    IN  [i \in 1..n |-> [doc |-> i, hit |-> sorted[i]]]

\* what one search call returns in the runner's specification: nothing
\* (also when the search raised, which search() itself catches), or hits
RunnerHit == [tech_id |-> "T1", chunk_index |-> 0, score |-> 1]
RunnerSearchResults == {<<>>} \cup { [i \in 1..n |-> RunnerHit] : n \in 1..MaxHits }

----------------------------------------------------------------------------
(* EvaluationRunner *)

KeyOrder == <<"novelty", "progressiveness", "field_applicability">>

\* the statement that follows the evaluate() call of each key
AfterKey(key) ==
    CASE key = "novelty" -> "progressiveness"
      [] key = "progressiveness" -> "field_applicability"
      [] key = "field_applicability" -> "score"

\* lines 116-123, multiplied by PointScale
Stage1Score(rs) ==
    (rs["novelty"].score + rs["progressiveness"].score) * StageFactor

Stage2Score(rs) ==
    rs["field_applicability"].score * 2 * StageFactor

OverallScore(rs) == Stage1Score(rs) + Stage2Score(rs)

\* a variant of OverallPass that forgets the cutoff
OverallPass_NoCutoff(rs) ==
    /\ rs["novelty"].pass_status
    /\ rs["progressiveness"].pass_status
    /\ rs["field_applicability"].pass_status

\* lines 126-131
OverallPass(rs) ==
    /\ rs["novelty"].pass_status
    /\ rs["progressiveness"].pass_status
    /\ rs["field_applicability"].pass_status
    /\ OverallScore(rs) >= OverallCutoff * PointScale

\* a variant of Stage1Pass that gates on the average of the two scores
Stage1Pass_ByAverage(rs) ==
    Stage1Score(rs) >= PassThreshold * StageFactor * PointScale

\* line 141 and line 146
Stage1Pass(rs) == rs["novelty"].pass_status /\ rs["progressiveness"].pass_status
Stage2Pass(rs) == rs["field_applicability"].pass_status

\* a variant of IsStrong with a strict comparison
IsStrong_Strict(r) == r.score > StrongThreshold * ScoreDenom

IsStrong(r) == r.score >= StrongThreshold * ScoreDenom
IsWeak(r) == r.score < WeakThreshold * ScoreDenom
NeedsRecommendation(r) == ~r.pass_status

\* f"{result.criterion}: {result.grade}"
PointLine(r) == [criterion |-> r.criterion, grade |-> r.grade]
\* f"{result.criterion} 보완 필요: {result.comments[:100]}"
RecommendationLine(r) ==
    [criterion |-> r.criterion, comments |-> Take(r.comments, RecommendationCut)]

\* lines 156-190: each loop walks {**stage_1, **stage_2} in dict order
generate_summary(rs, score, pass) ==
    LET strong == SelectSeq(KeyOrder, LAMBDA k : IsStrong(rs[k]))
        weak == SelectSeq(KeyOrder, LAMBDA k : IsWeak(rs[k]))
        recs == SelectSeq(KeyOrder, LAMBDA k : NeedsRecommendation(rs[k]))
    IN  [overall_grade |-> IF pass THEN "pass" ELSE "fail",
         score_out_of_100 |-> score,
         strong_points |-> [i \in 1..Len(strong) |-> PointLine(rs[strong[i]])],
         weak_points |-> [i \in 1..Len(weak) |-> PointLine(rs[weak[i]])],
         recommendations |->
             [i \in 1..Len(recs) |-> RecommendationLine(rs[recs[i]])]]

----------------------------------------------------------------------------
(* run_full_evaluation, step by step.  A step ends at a call of an        *)
(* external service: the embedding service, the vector search, the        *)
(* judgment service.                                                      *)

ParseIdle == response = <<>> /\ parsed = <<>>
BatchIdle ==
    /\ chunks = <<>> /\ bi = 0 /\ embedded_chunks = <<>>
    /\ batch_pc = "idle" /\ batch_failed = {}

Init ==
    /\ pc = "novelty" /\ ev = "call" /\ qi = 0 /\ attempt = 0
    /\ all_results = <<>>
    /\ results = <<>>
    /\ stage_1_score = 0 /\ stage_2_score = 0 /\ overall_score = 0
    /\ overall_pass = FALSE
    /\ summary = <<>> /\ outcome = <<>>
    /\ evalLog = <<>>
    /\ llm_calls = [k \in Keys |-> 0]
    /\ embed_calls = 0
    /\ ctx_empty = {}
    /\ ParseIdle /\ BatchIdle /\ MoreIdle

\* the locals of evaluate(), retrieve_context and create_embedding are
\* gone once evaluate() is left, by return or by an exception
LocalsGone ==
    /\ ev' = "call" /\ qi' = 0 /\ attempt' = 0 /\ embed_calls' = 0
    /\ all_results' = <<>>

\* evaluate() returns r to run_stage_1 / run_stage_2, which stores it
\* under its key and goes on (runner.py lines 70, 73, 93)
ReturnResult(r) ==
    /\ results' = (pc :> r) @@ results
    /\ evalLog' = Append(evalLog, <<pc, "end">>)
    /\ pc' = AfterKey(pc)
    /\ LocalsGone

\* self.<agent>.evaluate(tech_id) is called: base_agent.py lines 186-190,
\* retrieve_context up to the first embed_query call
BeginEvaluate ==
    /\ pc \in Keys /\ ev = "call"
    /\ ev' = "embed" /\ qi' = 1 /\ attempt' = 1 /\ embed_calls' = 0
    /\ all_results' = <<>>
    /\ evalLog' = Append(evalLog, <<pc, "start">>)
    /\ UNCHANGED <<pc, results, stage_1_score, stage_2_score, overall_score,
                   overall_pass, summary, outcome, llm_calls, ctx_empty>>
    /\ UNCHANGED <<parseVars, batchVars, moreVars>>

\* one attempt of create_embedding (embed_query) fails: tenacity retries
\* until stop_after_attempt(3), then raises RetryError, which nothing on
\* the way up to run_full_evaluation catches
EmbedQueryFails ==
    /\ pc \in Keys /\ ev = "embed"
    /\ IF attempt < MaxAttempts
       THEN /\ attempt' = attempt + 1 /\ embed_calls' = embed_calls + 1
            /\ UNCHANGED <<pc, ev, qi, all_results>>
       ELSE pc' = "raised" /\ LocalsGone
    /\ UNCHANGED <<results, stage_1_score, stage_2_score,
                   overall_score, overall_pass, summary, outcome, evalLog,
                   llm_calls, ctx_empty>>
    /\ UNCHANGED <<parseVars, batchVars, moreVars>>

\* an attempt of create_embedding succeeds: the query vector is returned
EmbedQueryOk ==
    /\ pc \in Keys /\ ev = "embed"
    /\ embed_calls' = embed_calls + 1
    /\ ev' = "search"
    /\ UNCHANGED <<pc, qi, attempt, all_results, results, stage_1_score,
                   stage_2_score, overall_score, overall_pass, summary,
                   outcome, evalLog, llm_calls, ctx_empty>>
    /\ UNCHANGED <<parseVars, batchVars, moreVars>>

\* a variant of NoContext that never short-circuits
NoContext_Never(context) == FALSE

\* "if not context:", line 192
NoContext(context) == context = <<>>

\* vectorstore.search returns (an error inside it is caught: no hits);
\* after the last query, lines 91-112 build the context and evaluate()
\* branches on it, lines 192-200
Search ==
    /\ pc \in Keys /\ ev = "search"
    /\ \E hits \in RunnerSearchResults :
          LET pooled == all_results \o hits
              context == BuildContext(pooled, retrieval_k, NumQueries(pc))
          IN  IF qi < NumQueries(pc)
              THEN /\ all_results' = pooled
                   /\ qi' = qi + 1 /\ ev' = "embed"
                   /\ attempt' = 1 /\ embed_calls' = 0
                   /\ UNCHANGED <<pc, results, evalLog, ctx_empty>>
              ELSE /\ ctx_empty' = IF context = <<>>
                                     THEN ctx_empty \cup {pc} ELSE ctx_empty
                   /\ IF NoContext(context)
                      THEN ReturnResult(SearchFailedResult(pc))
                      ELSE /\ ev' = "judge"
                           /\ qi' = 0 /\ attempt' = 0 /\ embed_calls' = 0
                           /\ all_results' = <<>>
                           /\ UNCHANGED <<pc, results, evalLog>>
    /\ UNCHANGED <<stage_1_score, stage_2_score, overall_score, overall_pass,
                   summary, outcome, llm_calls>>
    /\ UNCHANGED <<parseVars, batchVars, moreVars>>

\* invoke_llm raises (line 206): the error leaves run_full_evaluation
InvokeLLMRaises ==
    /\ pc \in Keys /\ ev = "judge"
    /\ llm_calls' = [llm_calls EXCEPT ![pc] = @ + 1]
    /\ pc' = "raised" /\ LocalsGone
    /\ UNCHANGED <<results, stage_1_score, stage_2_score, overall_score,
                   overall_pass, summary, outcome, evalLog, ctx_empty>>
    /\ UNCHANGED <<parseVars, batchVars, moreVars>>

\* invoke_llm answers and the answer is parsed, lines 206-212
InvokeLLMAndParse ==
    /\ pc \in Keys /\ ev = "judge"
    /\ llm_calls' = [llm_calls EXCEPT ![pc] = @ + 1]
    /\ \E r \in Responses : ReturnResult(parse_evaluation_response(pc, r))
    /\ UNCHANGED <<stage_1_score, stage_2_score, overall_score,
                   overall_pass, summary, outcome, ctx_empty>>
    /\ UNCHANGED <<parseVars, batchVars, moreVars>>

\* runner.py lines 116-131
ComputeScores ==
    /\ pc = "score"
    /\ stage_1_score' = Stage1Score(results)
    /\ stage_2_score' = Stage2Score(results)
    /\ overall_score' = OverallScore(results)
    /\ overall_pass' = OverallPass(results)
    /\ pc' = "summary"
    /\ UNCHANGED <<ev, qi, attempt, all_results, results, summary, outcome,
                   evalLog, llm_calls, embed_calls, ctx_empty>>
    /\ UNCHANGED <<parseVars, batchVars, moreVars>>

\* runner.py lines 134-154
BuildResult ==
    /\ pc = "summary"
    /\ summary' = generate_summary(results, overall_score, overall_pass)
    /\ outcome' =
           [stage_1 |-> [novelty |-> results["novelty"],
                         progressiveness |-> results["progressiveness"],
                         total_score |-> stage_1_score,
                         pass |-> Stage1Pass(results)],
            stage_2 |-> [field_applicability |-> results["field_applicability"],
                         total_score |-> stage_2_score,
                         pass |-> Stage2Pass(results)],
            overall_score |-> overall_score,
            overall_pass |-> overall_pass,
            summary |-> summary']
    /\ pc' = "returned"
    /\ UNCHANGED <<ev, qi, attempt, all_results, results, stage_1_score,
                   stage_2_score, overall_score, overall_pass, evalLog,
                   llm_calls, embed_calls, ctx_empty>>
    /\ UNCHANGED <<parseVars, batchVars, moreVars>>

Next ==
    \/ BeginEvaluate
    \/ EmbedQueryFails
    \/ EmbedQueryOk
    \/ Search
    \/ InvokeLLMRaises
    \/ InvokeLLMAndParse
    \/ ComputeScores
    \/ BuildResult

Spec == Init /\ [][Next]_vars

----------------------------------------------------------------------------
(* parse_evaluation_response as a function of the judgment's answer *)

EvalIdle ==
    /\ pc = "idle" /\ ev = "call" /\ qi = 0 /\ attempt = 0
    /\ all_results = <<>> /\ results = <<>>
    /\ stage_1_score = 0 /\ stage_2_score = 0 /\ overall_score = 0
    /\ overall_pass = FALSE /\ summary = <<>> /\ outcome = <<>>
    /\ evalLog = <<>> /\ llm_calls = [k \in Keys |-> 0]
    /\ embed_calls = 0 /\ ctx_empty = {}

InitParse ==
    /\ response \in [criterion : Keys, text : Responses]
    /\ parsed = <<>>
    /\ EvalIdle /\ BatchIdle /\ MoreIdle

ParseResponse ==
    /\ response # <<>> /\ parsed = <<>>
    /\ parsed' = <<parse_evaluation_response(response.criterion, response.text)>>
    /\ UNCHANGED <<response, evalVars, batchVars, moreVars>>

NextParse == ParseResponse

SpecParse == InitParse /\ [][NextParse]_vars

----------------------------------------------------------------------------
(* BedrockEmbedder.create_embeddings_batch, embedder.py lines 55-84.       *)
(* An embedding is held as its length: 0 for [], EmbeddingDim otherwise.   *)

ChunkPool == [tech_id : {"T1"}, chunk_index : 0..(MaxChunks - 1)]

ChunkLists == UNION { [1..n -> ChunkPool] : n \in 0..MaxChunks }

\* what the embedding service may answer: response_body.get("embedding", [])
Embeddings == {0, EmbeddingDim}

InitBatch ==
    /\ chunks \in ChunkLists
    /\ bi = 1 /\ embedded_chunks = <<>> /\ batch_pc = "loop"
    /\ batch_failed = {}
    /\ pc = "idle" /\ ev = "call" /\ qi = 0 /\ attempt = 1
    /\ all_results = <<>> /\ results = <<>>
    /\ stage_1_score = 0 /\ stage_2_score = 0 /\ overall_score = 0
    /\ overall_pass = FALSE /\ summary = <<>> /\ outcome = <<>>
    /\ evalLog = <<>> /\ llm_calls = [k \in Keys |-> 0]
    /\ embed_calls = 0 /\ ctx_empty = {}
    /\ ParseIdle /\ MoreIdle

BatchUnchanged ==
    UNCHANGED <<pc, ev, qi, all_results, results, stage_1_score,
                stage_2_score, overall_score, overall_pass, summary, outcome,
                evalLog, llm_calls, ctx_empty, parseVars, chunks, moreVars>>

\* lines 67-70: the chunk's record with its embedding
EmbeddedRecord(chunk, embedding) ==
    [chunk |-> chunk, embedding |-> embedding, embedding_error |-> FALSE]

\* lines 78-81: the chunk's record with [] and the error text
FailedRecord(chunk) ==
    [chunk |-> chunk, embedding |-> 0, embedding_error |-> TRUE]

\* an attempt of create_embedding(chunk.content) succeeds, lines 65-70
BatchEmbedOk ==
    /\ batch_pc = "loop" /\ bi <= Len(chunks)
    /\ \E e \in Embeddings :
          embedded_chunks' = Append(embedded_chunks, EmbeddedRecord(chunks[bi], e))
    /\ bi' = bi + 1 /\ attempt' = 1 /\ embed_calls' = 0
    /\ UNCHANGED <<batch_pc, batch_failed>>
    /\ BatchUnchanged

\* a variant of BatchEmbedFails that drops the chunk it could not embed
BatchEmbedFails_Skip ==
    /\ batch_pc = "loop" /\ bi <= Len(chunks)
    /\ IF attempt < MaxAttempts
       THEN /\ attempt' = attempt + 1 /\ embed_calls' = embed_calls + 1
            /\ UNCHANGED <<bi, embedded_chunks, batch_failed>>
       ELSE /\ batch_failed' = batch_failed \cup {bi}
            /\ bi' = bi + 1 /\ attempt' = 1 /\ embed_calls' = 0
            /\ UNCHANGED embedded_chunks
    /\ UNCHANGED batch_pc
    /\ BatchUnchanged

\* an attempt fails: tenacity retries, and after the third failure raises
\* RetryError, which "except Exception" of lines 75-81 catches
BatchEmbedFails ==
    /\ batch_pc = "loop" /\ bi <= Len(chunks)
    /\ IF attempt < MaxAttempts
       THEN /\ attempt' = attempt + 1 /\ embed_calls' = embed_calls + 1
            /\ UNCHANGED <<bi, embedded_chunks, batch_failed>>
       ELSE /\ embedded_chunks' = Append(embedded_chunks, FailedRecord(chunks[bi]))
            /\ batch_failed' = batch_failed \cup {bi}
            /\ bi' = bi + 1 /\ attempt' = 1 /\ embed_calls' = 0
    /\ UNCHANGED batch_pc
    /\ BatchUnchanged

\* the loop is over: lines 83-84
BatchReturn ==
    /\ batch_pc = "loop" /\ bi > Len(chunks)
    /\ batch_pc' = "returned"
    /\ UNCHANGED <<bi, attempt, embed_calls, embedded_chunks, batch_failed>>
    /\ BatchUnchanged

NextBatch == BatchEmbedOk \/ BatchEmbedFails \/ BatchReturn

SpecBatch == InitBatch /\ [][NextBatch]_vars

----------------------------------------------------------------------------
(* One call of BedrockEmbedder.create_embedding, embedder.py lines 28-53,  *)
(* directly or through embed_query (lines 86-88).  A text is held as its   *)
(* length, an embedding as its length.                                     *)

max_chars == 25000       \* "max_chars = 25000"

\* lengths of the text argument, around the cut of lines 35-37
TextLens == {0, max_chars - 1, max_chars, max_chars + 1}

\* errors invoke_model and the decoding of its answer may raise
ServiceErrors == {"ClientError", "JSONDecodeError"}

\* lines 35-37: text[:max_chars] when the text is longer
InputText(len) == IF len > max_chars THEN max_chars ELSE len

\* a variant of StopAfterAttempt that allows one attempt more
StopAfterAttempt_OneMore(n) == n >= MaxAttempts + 1

\* stop=stop_after_attempt(3), line 29: no retry after attempt number 3
StopAfterAttempt(n) == n >= MaxAttempts

InitEmbed ==
    /\ emb_entry \in {"create_embedding", "embed_query"}
    /\ emb_text \in TextLens
    /\ emb_attempt = 1 /\ emb_pc = "trying"
    /\ emb_result = 0 /\ emb_log = <<>>
    /\ EvalIdle /\ ParseIdle /\ BatchIdle /\ StoreIdle /\ RetrIdle
    /\ ChunkIdle /\ LateIdle

\* lines 43-53: the service answers, the embedding of the answer ([] when
\* the answer has none) is returned and the retry wrapper is left
EmbedAttemptOk ==
    /\ emb_pc = "trying"
    /\ \E e \in Embeddings :
          /\ emb_log' = Append(emb_log, [inputText |-> InputText(emb_text),
                                        error |-> "none", embedding |-> e])
          /\ emb_result' = e
    /\ emb_pc' = "returned"
    /\ UNCHANGED <<emb_entry, emb_text, emb_attempt>>
    /\ UNCHANGED <<evalVars, parseVars, batchVars, storeVars, retrVars,
                   chunkVars, lateVars>>

\* lines 43-50 raise: the retry wrapper starts the next attempt, or after
\* the last one raises RetryError to the caller
EmbedAttemptFails ==
    /\ emb_pc = "trying"
    /\ \E err \in ServiceErrors :
          emb_log' = Append(emb_log, [inputText |-> InputText(emb_text),
                                      error |-> err, embedding |-> 0])
    /\ IF StopAfterAttempt(emb_attempt)
       THEN emb_pc' = "raised" /\ UNCHANGED emb_attempt
       ELSE emb_attempt' = emb_attempt + 1 /\ UNCHANGED emb_pc
    /\ UNCHANGED <<emb_entry, emb_text, emb_result>>
    /\ UNCHANGED <<evalVars, parseVars, batchVars, storeVars, retrVars,
                   chunkVars, lateVars>>

NextEmbed == EmbedAttemptOk \/ EmbedAttemptFails

SpecEmbed == InitEmbed /\ [][NextEmbed]_vars

----------------------------------------------------------------------------
(* The vector stores: OpenSearchVectorStore.index_documents,               *)
(* opensearch_client.py lines 111-153, and LocalVectorStore.index_documents*)
(* lines 329-331.  Two writers index the embedded chunks of one submission,*)
(* each any number of times.  A document list is shorter than batch_size,  *)
(* so the loop of line 122 runs once for a non-empty list.                 *)

\* longest documents argument
MaxDocs == 2
\* LocalVectorStore.documents grows without limit: no call is started that
\* would make it longer than this
MaxStored == 4

batch_size == 100        \* "batch_size: int = 100"

Writers == {"w1", "w2"}

\* an embedded chunk, as create_embeddings_batch returns it: the embedding
\* is [] (held as 0) when the chunk could not be embedded
DocPool == [tech_id : {"T1"}, chunk_index : {0, 1}, embedding : Embeddings]

DocLists == UNION { [1..n -> DocPool] : n \in 0..MaxDocs }

\* line 135: "_id": f"{doc['tech_id']}_{doc['chunk_index']}"
DocId(doc) == <<doc.tech_id, doc.chunk_index>>

\* line 128: "if not doc.get('embedding')" is false
HasEmbedding(doc) == doc.embedding # 0

\* lines 126-139: the bulk body of the batch, without the skipped documents
BulkBody(batch) == SelectSeq(batch, HasEmbedding)

InitStore ==
    /\ store_impl \in {"OpenSearchVectorStore", "LocalVectorStore"}
    /\ client \in IF store_impl = "OpenSearchVectorStore"
                  THEN BOOLEAN ELSE {FALSE}
    /\ os_index = <<>> /\ documents = <<>>
    /\ new_documents \in DocLists
    /\ Len(new_documents) < batch_size
    /\ w_pc = [w \in Writers |-> "idle"]
    /\ w_bulk = [w \in Writers |-> <<>>]
    /\ w_errors = [w \in Writers |-> FALSE]
    /\ w_ret = [w \in Writers |-> <<>>]
    /\ w_stored = [w \in Writers |-> 0]
    /\ written = {}
    /\ EvalIdle /\ ParseIdle /\ BatchIdle /\ EmbedIdle /\ RetrIdle
    /\ ChunkIdle /\ LateIdle

StoreUnchanged ==
    UNCHANGED <<evalVars, parseVars, batchVars, embedVars, retrVars,
                chunkVars, lateVars>>

\* OpenSearchVectorStore.index_documents is called, lines 117-141: without
\* a client, or with nothing to send, it returns 0; else it sends the bulk
\* request
OSIndexDocuments(w) ==
    /\ store_impl = "OpenSearchVectorStore" /\ w_pc[w] = "idle"
    /\ IF client /\ BulkBody(new_documents) # <<>>
       THEN /\ w_pc' = [w_pc EXCEPT ![w] = "bulk"]
            /\ w_bulk' = [w_bulk EXCEPT ![w] = BulkBody(new_documents)]
            /\ w_errors' = [w_errors EXCEPT ![w] = FALSE]
            /\ w_ret' = [w_ret EXCEPT ![w] = <<>>]
       ELSE /\ w_ret' = [w_ret EXCEPT ![w] = <<0>>]
            /\ UNCHANGED <<w_pc, w_bulk, w_errors>>
    /\ w_stored' = [w_stored EXCEPT ![w] = 0]
    /\ UNCHANGED <<store_impl, client, os_index, documents, new_documents,
                   written>>
    /\ StoreUnchanged

\* the service applies the next "index" item of the request: the document
\* is created under its _id or replaces the one stored under it
BulkItemStored(w) ==
    /\ w_pc[w] = "bulk" /\ w_bulk[w] # <<>>
    /\ LET doc == Head(w_bulk[w])
       IN  /\ os_index' = (DocId(doc) :> doc) @@ os_index
           /\ written' = written \cup {DocId(doc)}
    /\ w_bulk' = [w_bulk EXCEPT ![w] = Tail(@)]
    /\ w_stored' = [w_stored EXCEPT ![w] = @ + 1]
    /\ UNCHANGED <<store_impl, client, documents, new_documents, w_pc,
                   w_errors, w_ret>>
    /\ StoreUnchanged

\* the service rejects the next item: the response will carry "errors"
BulkItemRejected(w) ==
    /\ w_pc[w] = "bulk" /\ w_bulk[w] # <<>>
    /\ w_bulk' = [w_bulk EXCEPT ![w] = Tail(@)]
    /\ w_errors' = [w_errors EXCEPT ![w] = TRUE]
    /\ UNCHANGED <<store_impl, client, os_index, documents, new_documents,
                   w_pc, w_ret, w_stored, written>>
    /\ StoreUnchanged

\* client.bulk returns, lines 143-153: without errors the whole batch is
\* counted
BulkReturns(w) ==
    /\ w_pc[w] = "bulk" /\ w_bulk[w] = <<>>
    /\ w_ret' = [w_ret EXCEPT ![w] = IF w_errors[w] THEN <<0>>
                                     ELSE <<Len(new_documents)>>]
    /\ w_pc' = [w_pc EXCEPT ![w] = "idle"]
    /\ UNCHANGED <<store_impl, client, os_index, documents, new_documents,
                   w_bulk, w_errors, w_stored, written>>
    /\ StoreUnchanged

\* client.bulk raises (the connection is lost, a timeout) with the items
\* applied so far stored: lines 149-153
BulkRaises(w) ==
    /\ w_pc[w] = "bulk"
    /\ w_ret' = [w_ret EXCEPT ![w] = <<0>>]
    /\ w_pc' = [w_pc EXCEPT ![w] = "idle"]
    /\ w_bulk' = [w_bulk EXCEPT ![w] = <<>>]
    /\ UNCHANGED <<store_impl, client, os_index, documents, new_documents,
                   w_errors, w_stored, written>>
    /\ StoreUnchanged

\* line 330: self.documents.extend(documents)
LocalExtend(stored, docs) == stored \o docs

\* LocalVectorStore.index_documents, lines 329-331
LocalIndexDocuments(w) ==
    /\ store_impl = "LocalVectorStore" /\ w_pc[w] = "idle"
    /\ Len(documents) + Len(new_documents) <= MaxStored
    /\ documents' = LocalExtend(documents, new_documents)
    /\ w_ret' = [w_ret EXCEPT ![w] = <<Len(new_documents)>>]
    /\ w_stored' = [w_stored EXCEPT ![w] = Len(new_documents)]
    /\ written' = written \cup { DocId(new_documents[i]) :
                                    i \in 1..Len(new_documents) }
    /\ UNCHANGED <<store_impl, client, os_index, new_documents, w_pc,
                   w_bulk, w_errors>>
    /\ StoreUnchanged

NextStore ==
    \E w \in Writers :
        \/ OSIndexDocuments(w)
        \/ BulkItemStored(w)
        \/ BulkItemRejected(w)
        \/ BulkReturns(w)
        \/ BulkRaises(w)
        \/ LocalIndexDocuments(w)

SpecStore == InitStore /\ [][NextStore]_vars

----------------------------------------------------------------------------
(* BaseEvaluationAgent.retrieve_context as a function of what the vector   *)
(* store answers to each query, base_agent.py lines 69-112.  Both stores   *)
(* answer at most k hits, ordered by score (opensearch_client.py lines     *)
(* 155-217 and 333-367).                                                   *)

\* largest k, and with it the longest answer of a search
MaxK == 2

QueryNames == {"q1", "q2"}

\* the query lists: no query, one, or both in either order
QueryLists ==
    {<<>>} \cup { <<q>> : q \in QueryNames }
           \cup { <<p, q>> : <<p, q>> \in { pq \in QueryNames \X QueryNames : pq[1] # pq[2] } }

\* line 76: k = k or self.config.retrieval_k
EffectiveK(k) == IF k = 0 THEN retrieval_k ELSE k

HitPool == [tech_id : {"T1"}, chunk_index : {0, 1}, score : {1, 2}]

IsDescending(hits) ==
    \A i \in 1..(Len(hits) - 1) : hits[i].score >= hits[i + 1].score

\* the answers of search(query_embedding, tech_id, k): results[:k], best
\* score first
SearchAnswers(k) ==
    { hits \in UNION { [1..n -> HitPool] : n \in 0..Min(EffectiveK(k), MaxK) } :
        IsDescending(hits) }

\* lines 77-89: all_results after the loop over the queries
RECURSIVE Pooled(_, _)
Pooled(qs, answers) ==
    IF qs = <<>> THEN <<>>
    ELSE answers[Head(qs)] \o Pooled(Tail(qs), answers)

\* lines 76-112 on the answers of the searches
retrieve_context(qs, k, answers) ==
    BuildContext(Pooled(qs, answers), EffectiveK(k), Len(qs))

InitRetrieve ==
    /\ queries \in QueryLists
    /\ search_k \in 0..MaxK
    /\ search_results \in [QueryNames -> SearchAnswers(search_k)]
    /\ context_parts = <<>> /\ retr_pc = "called"
    /\ EvalIdle /\ ParseIdle /\ BatchIdle /\ EmbedIdle /\ StoreIdle
    /\ ChunkIdle /\ LateIdle

RetrieveContext ==
    /\ retr_pc = "called"
    /\ context_parts' = retrieve_context(queries, search_k, search_results)
    /\ retr_pc' = "returned"
    /\ UNCHANGED <<queries, search_k, search_results>>
    /\ UNCHANGED <<evalVars, parseVars, batchVars, embedVars, storeVars,
                   chunkVars, lateVars>>

NextRetrieve == RetrieveContext

SpecRetrieve == InitRetrieve /\ [][NextRetrieve]_vars

----------------------------------------------------------------------------
(* DocumentChunker, chunker.py lines 34-247, and the /api/chunk endpoint,  *)
(* server.py lines 430-462.  A text is a sequence of characters: " " and   *)
(* "nl" (a newline) are whitespace, "x" is any other character of a page   *)
(* and the characters of the page marker stand for themselves.  The pages  *)
(* of a document carry the numbers 1, 2, ... in list order, but for the    *)
(* documents of OtherPageLists.                                            *)

\* largest chunk_size; chunk_overlap goes from 0 to it
MaxChunkSize == 3
\* one more chunk_size, wider than a page marker and a short page
WideChunkSize == 12
\* most pages of a document
MaxPages == 2
\* most entries of a table of contents
MaxTocItems == 2

DefaultSectionPages == 5 \* "start_page + 5"
CharsPerToken == 4       \* "len(chunk_text) // 4"

PageTexts == { <<>>, <<" ">>, <<"x">>, <<"x", " ">>, <<" ", "x", "x">> }

PagesOf(texts) == [i \in 1..Len(texts) |-> [page_number |-> i, full_text |-> texts[i]]]

\* documents whose page numbers are not 1..n: a page number given twice,
\* and a page far behind the first one
OtherPageLists ==
    { << [page_number |-> 1, full_text |-> <<"x">>],
         [page_number |-> 1, full_text |-> <<"x", " ">>] >>,
      << [page_number |-> 1, full_text |-> <<"x">>],
         [page_number |-> 7, full_text |-> <<"x">>] >> }

PageLists ==
    { PagesOf(texts) : texts \in UNION { [1..n -> PageTexts] : n \in 0..MaxPages } }
        \cup OtherPageLists

TocLists == UNION { [1..n -> [title : {"S"}, page : {1, 2}]] : n \in 0..MaxTocItems }

RequestTexts == { s \o t : s, t \in PageTexts }

ChunkSizes == 1..MaxChunkSize \cup {WideChunkSize}
ChunkOverlaps == 0..MaxChunkSize

\* str.strip() and "if not text.strip()"
IsSpace(c) == c \in {" ", "nl"}
IsBlank(s) == \A i \in 1..Len(s) : IsSpace(s[i])

RECURSIVE LStrip(_)
LStrip(s) == IF s # <<>> /\ IsSpace(Head(s)) THEN LStrip(Tail(s)) ELSE s

RECURSIVE RStrip(_)
RStrip(s) ==
    IF s # <<>> /\ IsSpace(s[Len(s)])
    THEN RStrip(SubSeq(s, 1, Len(s) - 1)) ELSE s

Strip(s) == RStrip(LStrip(s))

\* s[i:j] for 0 <= i <= j
Slice(s, i, j) == SubSeq(s, i + 1, Min(j, Len(s)))

\* list(range(0, stop, step)) for a step other than 0; range raises
\* ValueError for step 0
Range0(stop, step) ==
    IF step > 0
    THEN [n \in 1..((stop + step - 1) \div step) |-> (n - 1) * step]
    ELSE <<>>

\* what a call gives its caller
ReturnValue(v) == [status |-> "returned", value |-> v]
Exception(e) == [status |-> "raised", error |-> e]

\* a variant of Stride that is one character longer
Stride_OneMore == chunk_size - chunk_overlap + 1

\* "self.chunk_size - self.chunk_overlap", the step of the window loops
Stride == chunk_size - chunk_overlap

\* a variant of IndexAfterDropped where a dropped window takes an index
IndexAfterDropped_Consumed(chunk_index) == chunk_index + 1

\* "continue" of line 77 and the false branches of lines 181 and 234: a
\* window or section that is dropped leaves chunk_index as it is
IndexAfterDropped(chunk_index) == chunk_index

\* line 66: f"\n[페이지 {pt['page']}]\n"
PageMarker(page) == <<"nl", "[", "pe", "i", "ji", " ", ToString(page), "]", "nl">>

\* lines 49-58: page_texts, the pages whose text is not blank
NonBlankPages(pages) == SelectSeq(pages, LAMBDA p : ~IsBlank(p.full_text))

\* lines 61-67: combined_text and page_positions
RECURSIVE CombineFrom(_, _)
CombineFrom(page_texts, acc) ==
    IF page_texts = <<>> THEN acc
    ELSE LET pt == Head(page_texts)
         IN  CombineFrom(Tail(page_texts),
                 [text |-> acc.text \o PageMarker(pt.page_number) \o pt.full_text,
                  positions |-> Append(acc.positions, <<Len(acc.text), pt.page_number>>)])

Combined(pages) ==
    CombineFrom(NonBlankPages(pages), [text |-> <<>>, positions |-> <<>>])

\* _get_pages_in_range, lines 117-129
RECURSIVE CollectPages(_, _, _, _)
CollectPages(page_positions, start, end, acc) ==
    IF page_positions = <<>> THEN acc
    ELSE LET pos == Head(page_positions)[1]
             page_num == Head(page_positions)[2]
         IN  CollectPages(Tail(page_positions), start, end,
                 IF /\ pos >= start /\ pos < end
                    /\ \A i \in 1..Len(acc) : acc[i] # page_num
                 THEN Append(acc, page_num) ELSE acc)

\* a variant of get_pages_in_range that takes the end of the range in
get_pages_in_range_EndIncluded(page_positions, start, end) ==
    LET found == CollectPages(page_positions, start, end + 1, <<>>)
    IN  IF found = <<>> THEN <<1>> ELSE found

get_pages_in_range(page_positions, start, end) ==
    LET found == CollectPages(page_positions, start, end, <<>>)
    IN  IF found = <<>> THEN <<1>> ELSE found

\* _detect_section, lines 131-153: no text of the model holds a section
\* title of the table, so no pattern matches
detect_section(text) == "None"

\* a DocumentChunk, lines 87-95, 191-199 and 235-243; window is not a field
\* of the source: it records the range [start, end) of the buffer the
\* chunk was cut from
DocumentChunk(tech_id, chunk_index, chunk_text, pages, section, start) ==
    [tech_id |-> tech_id, chunk_index |-> chunk_index,
     content |-> Strip(chunk_text), page_numbers |-> pages,
     section |-> section, token_count |-> Len(chunk_text) \div CharsPerToken,
     window |-> [start |-> start, end |-> start + Len(chunk_text)]]

\* lines 73-98: the loop over the windows of combined_text
RECURSIVE ChunkDocumentLoop(_, _, _, _, _)
ChunkDocumentLoop(tech_id, text, page_positions, starts, chunk_index) ==
    IF starts = <<>> THEN <<>>
    ELSE LET i == Head(starts)
             chunk_text == Slice(text, i, i + chunk_size)
         IN  IF IsBlank(chunk_text)
             THEN ChunkDocumentLoop(tech_id, text, page_positions, Tail(starts),
                                    IndexAfterDropped(chunk_index))
             ELSE <<DocumentChunk(tech_id, chunk_index, chunk_text,
                        get_pages_in_range(page_positions, i, i + chunk_size),
                        detect_section(chunk_text), i)>>
                  \o ChunkDocumentLoop(tech_id, text, page_positions,
                                       Tail(starts), chunk_index + 1)

\* chunk_document, lines 42-100
chunk_document(doc) ==
    LET combined == Combined(doc.pages)
    IN  IF Stride = 0
        THEN Exception("ValueError")
        ELSE ReturnValue(ChunkDocumentLoop(doc.metadata.tech_id, combined.text,
                             combined.positions,
                             Range0(Len(combined.text), Stride), 0))

\* lines 232-245: the loop of _split_large_section
RECURSIVE SplitLoop(_, _, _, _, _, _)
SplitLoop(tech_id, text, starts, chunk_index, pages, section) ==
    IF starts = <<>> THEN <<>>
    ELSE LET i == Head(starts)
             chunk_text == Slice(text, i, i + chunk_size)
         IN  IF IsBlank(chunk_text)
             THEN SplitLoop(tech_id, text, Tail(starts),
                            IndexAfterDropped(chunk_index), pages, section)
             ELSE <<DocumentChunk(tech_id, chunk_index, chunk_text, pages,
                                  section, i)>>
                  \o SplitLoop(tech_id, text, Tail(starts), chunk_index + 1,
                               pages, section)

\* a variant of split_large_section that numbers its chunks from 0
split_large_section_FromZero(text, tech_id, start_index, pages, section) ==
    SplitLoop(tech_id, text, Range0(Len(text), Stride), 0, pages, section)

\* _split_large_section, lines 219-247, for a step other than 0
split_large_section(text, tech_id, start_index, pages, section) ==
    SplitLoop(tech_id, text, Range0(Len(text), Stride), start_index, pages,
              section)

\* line 167: page_map, by page number; a later page of the same number
\* replaces an earlier one
HasPage(pages, n) == \E i \in 1..Len(pages) : pages[i].page_number = n
PageText(pages, n) ==
    LET last == CHOOSE i \in 1..Len(pages) :
                    /\ pages[i].page_number = n
                    /\ \A j \in (i + 1)..Len(pages) : pages[j].page_number # n
    IN  pages[last].full_text
MaxPageNumber(pages) ==
    CHOOSE n \in { pages[i].page_number : i \in 1..Len(pages) } :
        \A i \in 1..Len(pages) : pages[i].page_number <= n

\* lines 173-179: section_text and included_pages of the pages p..stop-1
RECURSIVE SectionFrom(_, _, _)
SectionFrom(pages, p, stop) ==
    IF p >= stop THEN [text |-> <<>>, included |-> <<>>]
    ELSE LET rest == SectionFrom(pages, p + 1, stop)
         IN  IF HasPage(pages, p)
             THEN [text |-> <<"nl">> \o PageText(pages, p) \o rest.text,
                   included |-> <<p>> \o rest.included]
             ELSE rest

\* the chunks of one entry followed by what the later entries give
Then(first, rest) ==
    IF rest.status = "raised" THEN rest ELSE ReturnValue(first \o rest.value)

\* _chunk_by_toc, lines 169-203, from the i-th entry on
RECURSIVE TocLoop(_, _, _)
TocLoop(doc, i, chunk_index) ==
    LET toc == doc.table_of_contents
        pages == doc.pages
        tech_id == doc.metadata.tech_id
    IN  IF i > Len(toc) THEN ReturnValue(<<>>)
        ELSE IF pages = <<>>
        THEN Exception("ValueError")   \* max() of no key, line 176
        ELSE LET start_page == toc[i].page
                 end_page == IF i + 1 <= Len(toc) THEN toc[i + 1].page
                             ELSE start_page + DefaultSectionPages
                 sec == SectionFrom(pages, start_page,
                                    Min(end_page, MaxPageNumber(pages) + 1))
             IN  IF IsBlank(sec.text)
                 THEN TocLoop(doc, i + 1, IndexAfterDropped(chunk_index))
                 ELSE IF Len(sec.text) > chunk_size * 2
                 THEN IF Stride = 0
                      THEN Exception("ValueError")
                      ELSE LET sub_chunks ==
                                   split_large_section(sec.text, tech_id,
                                       chunk_index, sec.included, toc[i].title)
                           IN  Then(sub_chunks,
                                    TocLoop(doc, i + 1, chunk_index + Len(sub_chunks)))
                 ELSE Then(<<DocumentChunk(tech_id, chunk_index, sec.text,
                                           sec.included, toc[i].title, 0)>>,
                           TocLoop(doc, i + 1, chunk_index + 1))

\* chunk_by_section, lines 102-115, with _chunk_by_headers, lines 205-217
chunk_by_section(doc) ==
    IF doc.table_of_contents # <<>>
    THEN TocLoop(doc, 1, 0)
    ELSE chunk_document([metadata |-> doc.metadata, pages |-> doc.pages])

\* server.py lines 440-448: the loop of the endpoint
RECURSIVE ApiLoop(_, _, _)
ApiLoop(text, starts, acc) ==
    IF starts = <<>> THEN acc
    ELSE LET i == Head(starts)
             chunk_text == Slice(text, i, i + chunk_size)
         IN  ApiLoop(text, Tail(starts),
                 IF IsBlank(chunk_text) THEN acc
                 ELSE Append(acc, [index |-> Len(acc), content |-> chunk_text,
                                   start_pos |-> i,
                                   end_pos |-> Min(i + chunk_size, Len(text))]))

\* server.py lines 430-462: the ChunkResponse of the endpoint
api_chunk(text) ==
    IF Stride = 0
    THEN ReturnValue([success |-> FALSE, chunks |-> <<>>, chunks_count |-> 0,
                      error |-> "ValueError"])
    ELSE LET out == ApiLoop(text, Range0(Len(text), Stride), <<>>)
         IN  ReturnValue([success |-> TRUE, chunks |-> out,
                          chunks_count |-> Len(out), error |-> "None"])

InitChunk ==
    /\ chunk_entry \in {"chunk_document", "chunk_by_section", "api_chunk"}
    /\ chunk_size \in ChunkSizes /\ chunk_overlap \in ChunkOverlaps
    /\ document \in
          IF chunk_entry = "api_chunk" THEN {<<>>}
          ELSE [metadata : {[tech_id |-> "T1"]}, pages : PageLists,
                table_of_contents : IF chunk_entry = "chunk_by_section"
                                    THEN TocLists ELSE {<<>>}]
    /\ request_text \in IF chunk_entry = "api_chunk" THEN RequestTexts
                        ELSE {<<>>}
    /\ chunk_pc = "called" /\ chunk_out = <<>>
    /\ EvalIdle /\ ParseIdle /\ BatchIdle /\ EmbedIdle /\ StoreIdle
    /\ RetrIdle /\ LateIdle

ChunkReturns(result) ==
    /\ chunk_pc' = result.status
    /\ chunk_out' = result
    /\ UNCHANGED <<chunk_entry, chunk_size, chunk_overlap, document,
                   request_text>>
    /\ UNCHANGED <<evalVars, parseVars, batchVars, embedVars, storeVars,
                   retrVars, lateVars>>

ChunkDocument ==
    /\ chunk_pc = "called" /\ chunk_entry = "chunk_document"
    /\ ChunkReturns(chunk_document(document))

ChunkBySection ==
    /\ chunk_pc = "called" /\ chunk_entry = "chunk_by_section"
    /\ ChunkReturns(chunk_by_section(document))

ApiChunk ==
    /\ chunk_pc = "called" /\ chunk_entry = "api_chunk"
    /\ ChunkReturns(api_chunk(request_text))

NextChunk == ChunkDocument \/ ChunkBySection \/ ApiChunk

SpecChunk == InitChunk /\ [][NextChunk]_vars

----------------------------------------------------------------------------
(* EvaluationPipeline.process_document, runner.py lines 226-254, as        *)
(* run_pipeline calls it for one json_path after the other, lines 266-269. *)
(* json_paths holds the documents the files load to.  The upload to S3     *)
(* changes nothing the model holds.                                        *)

\* most documents of one run_pipeline call
MaxPaths == 2

PipelineTechIds == {"T1", "T2"}

PipelinePageLists ==
    { PagesOf(<<>>), PagesOf(<< <<"x">> >>),
      PagesOf(<< <<"x">>, <<" ", "x", "x">> >>) }

PipelineDocuments ==
    [metadata : [tech_id : PipelineTechIds], pages : PipelinePageLists]

PathLists == UNION { [1..n -> PipelineDocuments] : n \in 0..MaxPaths }

\* the chunks whose embedding fails: none, or the first one
FailingChunks == { {}, {1} }

\* embedder.py lines 63-81: chunk.to_dict() with its embedding, [] (held
\* as 0) for a chunk that could not be embedded
EmbeddedChunks(cs, failing) ==
    [ n \in 1..Len(cs) |->
        [tech_id |-> cs[n].tech_id, chunk_index |-> cs[n].chunk_index,
         content |-> cs[n].content, page_numbers |-> cs[n].page_numbers,
         embedding |-> IF n \in failing THEN 0 ELSE EmbeddingDim] ]

\* opensearch_client.py lines 131-144: the service stores every item of
\* the bulk body under its _id, a later item replacing an earlier one
RECURSIVE BulkStored(_, _)
BulkStored(index, body) ==
    IF body = <<>> THEN index
    ELSE BulkStored((DocId(Head(body)) :> Head(body)) @@ index, Tail(body))

InitPipeline ==
    /\ json_paths \in PathLists
    /\ path_i = 1 /\ tech_ids = <<>> /\ produced = <<>>
    /\ store_impl \in {"OpenSearchVectorStore", "LocalVectorStore"}
    /\ client = (store_impl = "OpenSearchVectorStore")
    /\ os_index = <<>> /\ documents = <<>> /\ new_documents = <<>>
    /\ w_pc = <<>> /\ w_bulk = <<>> /\ w_errors = <<>> /\ w_ret = <<>>
    /\ w_stored = <<>> /\ written = {}
    /\ chunk_entry = "none" /\ document = <<>> /\ request_text = <<>>
    /\ chunk_pc = "idle" /\ chunk_out = <<>>
    /\ chunk_size \in {MaxChunkSize, WideChunkSize} /\ chunk_overlap = 0
    /\ EvalIdle /\ ParseIdle /\ BatchIdle /\ EmbedIdle /\ RetrIdle
    /\ TokenIdle

\* process_document(json_paths[path_i]): chunking, embedding, indexing;
\* bulk_ok tells whether client.bulk answers without errors
ProcessDocument(failing, bulk_ok) ==
    /\ path_i <= Len(json_paths)
    /\ LET doc == json_paths[path_i]
           cut == chunk_document(doc).value
           records == EmbeddedChunks(cut,
                                  IF store_impl = "OpenSearchVectorStore"
                                  THEN failing ELSE {})
       IN  /\ produced' = produced \o
                  [ n \in 1..Len(cut) |-> [call |-> path_i, chunk |-> cut[n]] ]
           /\ IF store_impl = "OpenSearchVectorStore"
              THEN /\ os_index' = IF bulk_ok
                                  THEN BulkStored(os_index, BulkBody(records))
                                  ELSE os_index
                   /\ UNCHANGED documents
              ELSE /\ documents' = LocalExtend(documents, records)
                   /\ UNCHANGED os_index
           /\ tech_ids' = Append(tech_ids, doc.metadata.tech_id)
    /\ path_i' = path_i + 1
    /\ UNCHANGED <<json_paths, store_impl, client, new_documents, w_pc,
                   w_bulk, w_errors, w_ret, w_stored, written>>
    /\ UNCHANGED <<chunkVars, evalVars, parseVars, batchVars, embedVars,
                   retrVars, tokenVars>>

NextPipeline ==
    \E failing \in FailingChunks, bulk_ok \in BOOLEAN :
        ProcessDocument(failing, bulk_ok)

SpecPipeline == InitPipeline /\ [][NextPipeline]_vars

----------------------------------------------------------------------------
(* The token lifecycle of KISTIClient, kisti_client.py lines 21-41 and     *)
(* 137-236.  A time is a positive number and 0 stands for None; a token is *)
(* a string, "" when the answer carries none; Malformed is an expiry that   *)
(* strptime cannot read.  datetime.now() does not move while a call runs.  *)

\* the last value of datetime.now()
MaxTime == 3

\* an expiry string that datetime.strptime rejects
Malformed == 0 - 1

\* what the token server may send as an expiry at time t: a string that
\* is no date, none, a time that is not in the future, a time in the future
TokenExpiries(t) == {Malformed, 0, t, t + 1}

\* the answers to a token request at time t: requests.get raises or
\* response.json() fails, a status other than 200, a body with errorCode,
\* or a body with whatever fields the server sends
NoTokenFields(status, error_code) ==
    [status |-> status, error_code |-> error_code,
     access_token |-> "", access_token_expire |-> 0,
     refresh_token |-> "", refresh_token_expire |-> 0]

TokenResponses(t) ==
    { NoTokenFields("exception", FALSE), NoTokenFields("http_error", FALSE),
      NoTokenFields("ok", TRUE) }
    \cup [status : {"ok"}, error_code : {FALSE},
          access_token : {"", "at"}, access_token_expire : TokenExpiries(t),
          refresh_token : {"", "rt"}, refresh_token_expire : TokenExpiries(t)]

\* KISTITokenInfo(), lines 21-29
NoToken ==
    [access_token |-> "", access_token_expire |-> 0,
     refresh_token |-> "", refresh_token_expire |-> 0]

\* lines 31-35
is_access_token_valid(info, t) ==
    /\ info.access_token # "" /\ info.access_token_expire # 0
    /\ t < info.access_token_expire

\* lines 37-41
is_refresh_token_valid(info, t) ==
    /\ info.refresh_token # "" /\ info.refresh_token_expire # 0
    /\ t < info.refresh_token_expire

\* what a token operation leaves in token_info, and what it returns
TokenResult(info, value) == [info |-> info, value |-> value]

\* request_token, lines 137-188: the tokens are stored before the expiry
\* strings are parsed, and a string that cannot be parsed ends the call
\* in the except branch with what was stored so far
request_token(info, resp) ==
    IF resp.status # "ok" \/ resp.error_code
    THEN TokenResult(info, FALSE)
    ELSE LET tokens == [info EXCEPT !.access_token = resp.access_token,
                                    !.refresh_token = resp.refresh_token]
             access == IF resp.access_token_expire # 0
                       THEN [tokens EXCEPT !.access_token_expire =
                                               resp.access_token_expire]
                       ELSE tokens
             refresh == IF resp.refresh_token_expire # 0
                        THEN [access EXCEPT !.refresh_token_expire =
                                                resp.refresh_token_expire]
                        ELSE access
         IN  IF resp.access_token_expire = Malformed
             THEN TokenResult(tokens, FALSE)
             ELSE IF resp.refresh_token_expire = Malformed
             THEN TokenResult(access, FALSE)
             ELSE TokenResult(refresh, TRUE)

\* the refresh request does not give a token: exception, status, errorCode
\* or an expiry that cannot be parsed (lines 207, 209-211, 221-226)
RefreshFails(resp) ==
    \/ resp.status # "ok" \/ resp.error_code
    \/ resp.access_token_expire = Malformed

\* refresh_access_token, lines 190-226: resp answers the first request the
\* call sends and resp2 the request_token that follows a failed refresh
refresh_access_token(info, t, resp, resp2) ==
    IF ~is_refresh_token_valid(info, t)
    THEN request_token(info, resp)
    ELSE IF resp.status # "ok" \/ resp.error_code
    THEN request_token(info, resp2)
    ELSE LET token == [info EXCEPT !.access_token = resp.access_token]
         IN  IF resp.access_token_expire = Malformed
             THEN request_token(token, resp2)
             ELSE TokenResult(
                      IF resp.access_token_expire # 0
                      THEN [token EXCEPT !.access_token_expire =
                                             resp.access_token_expire]
                      ELSE token,
                      TRUE)

\* ensure_valid_token, lines 228-236
ensure_valid_token(info, t, resp, resp2) ==
    IF is_access_token_valid(info, t)
    THEN TokenResult(info, TRUE)
    ELSE IF is_refresh_token_valid(info, t)
    THEN refresh_access_token(info, t, resp, resp2)
    ELSE request_token(info, resp)

NoTokenCall == [op |-> "none", value |-> FALSE, was_valid |-> FALSE,
                kept |-> TRUE]

InitToken ==
    /\ token_info = NoToken /\ now = 1 /\ token_call = NoTokenCall
    /\ EvalIdle /\ ParseIdle /\ BatchIdle /\ EmbedIdle /\ StoreIdle
    /\ RetrIdle /\ ChunkIdle /\ PipeIdle

\* a token operation returns: token_call records which one, its value,
\* whether the access token was valid when it began and whether it left
\* token_info as it was
TokenReturns(op, result) ==
    /\ token_info' = result.info
    /\ token_call' = [op |-> op, value |-> result.value,
                      was_valid |-> is_access_token_valid(token_info, now),
                      kept |-> result.info = token_info]
    /\ UNCHANGED now
    /\ UNCHANGED <<evalVars, parseVars, batchVars, embedVars, storeVars,
                   retrVars, chunkVars, pipeVars>>

\* the answers a call gets after resp: one more when it goes on to
\* request_token after a failed refresh, none otherwise
SecondResponses(op, resp) ==
    IF /\ is_refresh_token_valid(token_info, now)
       /\ op = "ensure_valid_token" => ~is_access_token_valid(token_info, now)
       /\ RefreshFails(resp)
    THEN TokenResponses(now) ELSE {resp}

RequestToken ==
    \E resp \in TokenResponses(now) :
        TokenReturns("request_token", request_token(token_info, resp))

RefreshAccessToken ==
    \E resp \in TokenResponses(now) :
        \E resp2 \in SecondResponses("refresh_access_token", resp) :
            TokenReturns("refresh_access_token",
                         refresh_access_token(token_info, now, resp, resp2))

EnsureValidToken ==
    \E resp \in TokenResponses(now) :
        \E resp2 \in SecondResponses("ensure_valid_token", resp) :
            TokenReturns("ensure_valid_token",
                         ensure_valid_token(token_info, now, resp, resp2))

\* time passes between two calls
Tick ==
    /\ now < MaxTime
    /\ now' = now + 1
    /\ token_call' = NoTokenCall
    /\ UNCHANGED token_info
    /\ UNCHANGED <<evalVars, parseVars, batchVars, embedVars, storeVars,
                   retrVars, chunkVars, pipeVars>>

NextToken == RequestToken \/ RefreshAccessToken \/ EnsureValidToken \/ Tick

SpecToken == InitToken /\ [][NextToken]_vars

----------------------------------------------------------------------------
(* Properties of run_full_evaluation (specification Spec) *)

Pts(n) == n * PointScale
Sc(n) == n * ScoreDenom
Returned == pc = "returned"

\* C1: overall_pass is true exactly when the novelty, the progress and the
\* field-applicability pass flags are all true and overall score >= 70.
C1_OverallPassIffAllFour ==
    Returned =>
        (outcome.overall_pass <=>
            /\ results["novelty"].pass_status
            /\ results["progressiveness"].pass_status
            /\ results["field_applicability"].pass_status
            /\ outcome.overall_score >= Pts(OverallCutoff))

\* C1, the spec's example: scores 4 / 2 / 5 give 80 and fail, only the
\* progress flag being false
C1_Witness_80ButFails ==
    /\ Returned
    /\ results["novelty"].score = Sc(4)
    /\ results["progressiveness"].score = Sc(2)
    /\ results["field_applicability"].score = Sc(5)
    /\ outcome.overall_score = Pts(80)
    /\ ~outcome.overall_pass

\* C1, the other three single failures (each is reachable)
C1_OnlyCutoffFails ==
    /\ Returned
    /\ \A k \in Keys : results[k].score = Sc(3) /\ results[k].pass_status
    /\ outcome.overall_score = Pts(60)
    /\ ~outcome.overall_pass
C1_OnlyNoveltyFails ==
    /\ Returned
    /\ ~results["novelty"].pass_status
    /\ results["progressiveness"].pass_status
    /\ results["field_applicability"].pass_status
    /\ outcome.overall_score >= Pts(OverallCutoff)
    /\ ~outcome.overall_pass
C1_OnlyFieldFails ==
    /\ Returned
    /\ results["novelty"].pass_status
    /\ results["progressiveness"].pass_status
    /\ ~results["field_applicability"].pass_status
    /\ outcome.overall_score >= Pts(OverallCutoff)
    /\ ~outcome.overall_pass

\* C2: in every outcome the overall score is (novelty * 0.5 + progress *
\* 0.5) * 10 + field * 10, each stage contributes at most 50 and the
\* overall score lies in [0, 100].
C2_OverallScoreFormulaAndRange ==
    Returned =>
        /\ outcome.stage_1.total_score * ScoreDenom * 2 =
              PointScale * StageFactor
              * (results["novelty"].score + results["progressiveness"].score)
        /\ outcome.stage_2.total_score * ScoreDenom =
              PointScale * StageFactor * results["field_applicability"].score
        /\ outcome.overall_score =
              outcome.stage_1.total_score + outcome.stage_2.total_score
        /\ outcome.stage_1.total_score <= Pts(MaxScore * StageFactor)
        /\ outcome.stage_2.total_score <= Pts(MaxScore * StageFactor)
        /\ outcome.overall_score >= 0
        /\ outcome.overall_score <= Pts(2 * MaxScore * StageFactor)

\* C2, the part the code keeps: the formula of the overall score
C2_FormulaAlone ==
    Returned =>
        /\ outcome.stage_1.total_score * ScoreDenom * 2 =
              PointScale * StageFactor
              * (results["novelty"].score + results["progressiveness"].score)
        /\ outcome.stage_2.total_score * ScoreDenom =
              PointScale * StageFactor * results["field_applicability"].score
        /\ outcome.overall_score =
              outcome.stage_1.total_score + outcome.stage_2.total_score

\* C3: every result evaluate() returned has its score in [0, 5] and its
\* pass flag equal to (score >= 3).
C3_ScoreInRangeAndPassDerived ==
    \A k \in DOMAIN results :
        /\ results[k].score >= 0
        /\ results[k].score <= Sc(MaxScore)
        /\ results[k].pass_status <=> (results[k].score >= Sc(PassThreshold))

\* C3, the part the code keeps: the pass flag follows the score
C3_PassDerivedAlone ==
    \A k \in DOMAIN results :
        results[k].pass_status <=> (results[k].score >= Sc(PassThreshold))

\* C4: run_full_evaluation never raises and, whatever the collaborators
\* did, returns a complete outcome.
C4_NeverRaises ==
    /\ pc # "raised"
    /\ Returned =>
          /\ DOMAIN outcome = {"stage_1", "stage_2", "overall_score",
                               "overall_pass", "summary"}
          /\ DOMAIN results = Keys

IsPrefix(a, b) == Len(a) <= Len(b) /\ a = SubSeq(b, 1, Len(a))

CanonicalLog ==
    <<  <<"novelty", "start">>, <<"novelty", "end">>,
        <<"progressiveness", "start">>, <<"progressiveness", "end">>,
        <<"field_applicability", "start">>, <<"field_applicability", "end">>  >>

\* C5: in every run the three criteria are each evaluated exactly once,
\* novelty and progress (Stage 1) finishing before field applicability
\* (Stage 2) starts, Stage 2 being evaluated whatever Stage 1 gave.
C5_EachCriterionOnceInStageOrder ==
    /\ IsPrefix(evalLog, CanonicalLog)
    /\ pc \in {"score", "summary", "returned", "raised"} => evalLog = CanonicalLog

\* C5, the part the code keeps: no re-entry and the order of the stages,
\* and all three evaluations in a run that returns
C5_OrderAlone ==
    /\ IsPrefix(evalLog, CanonicalLog)
    /\ pc \in {"score", "summary", "returned"} => evalLog = CanonicalLog

\* C6: the reported Stage 1 pass flag is true iff both the novelty and the
\* progress pass flags are true, whatever the Stage 1 contribution; the
\* reported Stage 2 pass flag is true iff the field pass flag is true.
C6_StagePassFlags ==
    Returned =>
        /\ outcome.stage_1.novelty = results["novelty"]
        /\ outcome.stage_1.progressiveness = results["progressiveness"]
        /\ outcome.stage_2.field_applicability = results["field_applicability"]
        /\ outcome.stage_1.pass <=>
              (results["novelty"].pass_status
               /\ results["progressiveness"].pass_status)
        /\ outcome.stage_2.pass <=> results["field_applicability"].pass_status

\* C6, the spec's example: scores 4 and 2 give contribution 30, Stage 1 fails
C6_Witness_30ButStage1Fails ==
    /\ Returned
    /\ results["novelty"].score = Sc(4)
    /\ results["progressiveness"].score = Sc(2)
    /\ outcome.stage_1.total_score = Pts(30)
    /\ ~outcome.stage_1.pass
    /\ outcome.stage_2.pass

\* C7: a criterion whose retrieval gave an empty context gets the result
\* with score 0, grade "search failed" and pass flag false, and the judgment
\* service is not invoked in that evaluation.
C7_EmptyContextShortCircuits ==
    \A k \in ctx_empty :
        /\ llm_calls[k] = 0
        /\ k \in DOMAIN results
        /\ results[k] = [criterion |-> k, score |-> 0,
                         grade |-> "search_failed",
                         comments |-> Lit("no_related_documents", 17),
                         pass_status |-> FALSE]

C7_Witness_EmptyContext ==
    /\ Returned
    /\ ctx_empty = {"progressiveness"}
    /\ llm_calls = [k \in Keys |-> IF k = "progressiveness" THEN 0 ELSE 1]

Listed(lines, k) == \E i \in 1..Len(lines) : lines[i].criterion = k

\* C9 (state part): a criterion is a strong point iff its score >= 4, a
\* weak point iff its score < 3, and has a recommendation, carrying the
\* first 100 characters of its comments, iff its pass flag is false; a
\* criterion that short-circuited with score 0 is in both weak points and
\* recommendations.
C9_SummaryLists ==
    Returned =>
        \A k \in Keys :
            LET r == results[k]
                s == outcome.summary
            IN  /\ Listed(s.strong_points, k) <=> r.score >= Sc(StrongThreshold)
                /\ Listed(s.weak_points, k) <=> r.score < Sc(WeakThreshold)
                /\ Listed(s.recommendations, k) <=> ~r.pass_status
                /\ \A i \in 1..Len(s.recommendations) :
                      s.recommendations[i].criterion = k =>
                          /\ s.recommendations[i].comments =
                                Take(r.comments, RecommendationCut)
                          /\ StrLen(s.recommendations[i].comments) =
                                Min(StrLen(r.comments), RecommendationCut)
                /\ r.grade \in {"search_failed", "parse_error"} =>
                      /\ r.score = 0
                      /\ Listed(s.weak_points, k)
                      /\ Listed(s.recommendations, k)

\* C9 (step part): building the summary and the result leaves the overall
\* score and the overall pass flag as they were computed.
C9_SummaryKeepsVerdict ==
    pc = "summary" =>
        /\ overall_score' = overall_score /\ overall_pass' = overall_pass
        /\ pc' = "returned" =>
              /\ outcome'.overall_score = overall_score
              /\ outcome'.overall_pass = overall_pass
              /\ outcome'.summary.score_out_of_100 = overall_score
              /\ (outcome'.summary.overall_grade = "pass") <=> overall_pass

\* C9: the summary classifies every criterion by the thresholds and never
\* changes the overall score or the overall pass flag.
C9_SummaryClassifies == [](C9_SummaryLists) /\ [][C9_SummaryKeepsVerdict]_vars

C9_Witness_ShortCircuitListed ==
    /\ Returned
    /\ results["novelty"].grade = "search_failed"
    /\ Listed(outcome.summary.weak_points, "novelty")
    /\ Listed(outcome.summary.recommendations, "novelty")
    /\ results["progressiveness"].score = Sc(4)
    /\ Listed(outcome.summary.strong_points, "progressiveness")
    /\ results["field_applicability"].score = Sc(2)
    /\ StrLen(results["field_applicability"].comments) > RecommendationCut
    /\ Len(outcome.summary.recommendations) = 2
    /\ StrLen(outcome.summary.recommendations[2].comments) = RecommendationCut

----------------------------------------------------------------------------
(* Properties of parse_evaluation_response (specification SpecParse) *)

\* no JSON object, invalid JSON, or a "score" that is not a JSON number
Unparseable(r) ==
    \/ r.shape # "object"
    \/ r.score_kind \in {"string", "null", "bool", "nonfinite"}

\* C8: for a response whose structured output cannot be parsed the parser
\* returns score 0, pass flag false and comments carrying the first 500
\* characters of the raw response.
C8_UnparseableGivesZeroResult ==
    (parsed # <<>> /\ Unparseable(response.text)) =>
        /\ parsed[1].score = 0
        /\ ~parsed[1].pass_status
        /\ parsed[1].comments =
              Lit("parse_failed: ", 10)
              \o Lit("response", Min(response.text.len, ResponseCut))

\* C8, the part the code keeps: every such response but a JSON true/false
C8_AllButBooleans ==
    (parsed # <<>> /\ Unparseable(response.text)
       /\ response.text.score_kind # "bool") =>
        /\ parsed[1].score = 0
        /\ ~parsed[1].pass_status
        /\ parsed[1].comments =
              Lit("parse_failed: ", 10)
              \o Lit("response", Min(response.text.len, ResponseCut))

----------------------------------------------------------------------------
(* Properties of create_embeddings_batch (specification SpecBatch) *)

\* C10: the batch returns exactly one record per input chunk, in input
\* order; a chunk whose embedding failed is emitted with an empty vector
\* and an error marker, and the chunks after it are still processed.
C10_OneRecordPerChunkInOrder ==
    /\ batch_pc \in {"loop", "returned"}
    /\ Len(embedded_chunks) = bi - 1
    /\ \A i \in 1..Len(embedded_chunks) :
          /\ embedded_chunks[i].chunk = chunks[i]
          /\ i \in batch_failed =>
                /\ embedded_chunks[i].embedding = 0
                /\ embedded_chunks[i].embedding_error
    /\ batch_pc = "returned" => Len(embedded_chunks) = Len(chunks)
    /\ batch_pc = "loop" => ENABLED NextBatch

C10_Witness_FailureInTheMiddle ==
    /\ batch_pc = "returned"
    /\ Len(chunks) = MaxChunks
    /\ batch_failed = {2}
    /\ embedded_chunks[MaxChunks].embedding = EmbeddingDim
    /\ ~embedded_chunks[MaxChunks].embedding_error

----------------------------------------------------------------------------
(* Properties of create_embedding (specification SpecEmbed) *)

Failed(entry) == entry.error # "none"

\* C11: one call of create_embedding invokes the embedding service at
\* most 3 times; what it returns is the answer of its first successful
\* attempt, every attempt before it having failed; and after 3 failed
\* attempts it retries no more and the failure goes to its caller.
C11_AtMostThreeAttempts ==
    /\ Len(emb_log) <= 3
    /\ emb_pc = "trying" =>
          /\ Len(emb_log) < 3
          /\ \A i \in 1..Len(emb_log) : Failed(emb_log[i])
    /\ emb_pc = "returned" =>
          /\ emb_log # <<>>
          /\ ~Failed(emb_log[Len(emb_log)])
          /\ emb_result = emb_log[Len(emb_log)].embedding
          /\ \A i \in 1..(Len(emb_log) - 1) : Failed(emb_log[i])
    /\ emb_pc = "raised" =>
          /\ Len(emb_log) = 3
          /\ \A i \in 1..3 : Failed(emb_log[i])

\* three attempts failed and the call raised
C11_Witness_ThreeFailures ==
    /\ emb_pc = "raised" /\ Len(emb_log) = 3
    /\ emb_log[1].error = "ClientError" /\ emb_log[3].error = "JSONDecodeError"

\* the third attempt succeeded after two failures
C11_Witness_ThirdAttemptSucceeds ==
    /\ emb_pc = "returned" /\ Len(emb_log) = 3
    /\ emb_result = EmbeddingDim

----------------------------------------------------------------------------
(* Properties of the vector stores (specification SpecStore) *)

\* the records the store holds, and how many of them have the key k
StoredCount(k) ==
    IF store_impl = "LocalVectorStore"
    THEN Cardinality({ i \in 1..Len(documents) : DocId(documents[i]) = k })
    ELSE IF k \in DOMAIN os_index THEN 1 ELSE 0

StoredDocs ==
    IF store_impl = "LocalVectorStore"
    THEN { documents[i] : i \in 1..Len(documents) }
    ELSE { os_index[id] : id \in DOMAIN os_index }

AllDocIds == { DocId(d) : d \in DocPool }

\* the writer's last call returned the whole list as indexed
Succeeded(w) == w_ret[w] = <<Len(new_documents)>>

\* C12: with either vector store, after any sequence of index_documents
\* calls the store holds at most one record per (tech_id, chunk_index) and
\* no record without a non-empty embedding.
C12_OneRecordPerKeyWithVector ==
    /\ \A k \in AllDocIds : StoredCount(k) <= 1
    /\ \A d \in StoredDocs : d.embedding # 0

\* C12, the OpenSearch store alone
C12_OpenSearchAlone ==
    store_impl = "OpenSearchVectorStore" => C12_OneRecordPerKeyWithVector

\* C12, indexing again: once a call has indexed the whole list, no later
\* step of any call changes what the store holds
C12_ReindexChangesNothing ==
    [][(\E w \in Writers : Succeeded(w)) => UNCHANGED <<os_index, documents>>]_vars

C12_OpenSearchReindexChangesNothing ==
    [][(store_impl = "OpenSearchVectorStore" /\ \E w \in Writers : Succeeded(w))
          => UNCHANGED <<os_index, documents>>]_vars

\* C13: when both writers have indexed the embedded chunks of the
\* submission, in any interleaving of their writes, the store holds
\* exactly one record for every key they wrote.
C13_ConcurrentWritersNoDuplicate ==
    (\A w \in Writers : w_pc[w] = "idle" /\ w_ret[w] # <<>>)
       => \A k \in written : StoredCount(k) = 1

\* C13, the OpenSearch store alone
C13_OpenSearchAlone ==
    store_impl = "OpenSearchVectorStore" => C13_ConcurrentWritersNoDuplicate

\* both writers were inside client.bulk at once, each wrote, both returned
C13_OpenSearchInterleaved ==
    /\ store_impl = "OpenSearchVectorStore"
    /\ \A w \in Writers : w_pc[w] = "bulk" /\ Len(w_bulk[w]) = 1
    /\ Len(BulkBody(new_documents)) = 2

----------------------------------------------------------------------------
(* Properties of retrieve_context (specification SpecRetrieve) *)

\* the pooled hits of the call, and the place where a key is first seen
PooledHits == Pooled(queries, search_results)
FirstSeen(key) ==
    CHOOSE p \in 1..Len(PooledHits) :
        /\ HitKey(PooledHits[p]) = key
        /\ \A q \in 1..(p - 1) : HitKey(PooledHits[q]) # key
RenderedKeys(blocks) == { HitKey(blocks[i].hit) : i \in 1..Len(blocks) }
PlaceOf(blocks, key) == CHOOSE i \in 1..Len(blocks) : HitKey(blocks[i].hit) = key

\* C14: in the context retrieve_context returns no (tech_id, chunk_index)
\* key is rendered twice, and the hit rendered for a key is the first hit
\* with that key in the order of the queries, with its score.
C14_NoKeyTwiceFirstSeenKept ==
    retr_pc = "returned" =>
        /\ \A i, j \in 1..Len(context_parts) :
              i # j => HitKey(context_parts[i].hit) # HitKey(context_parts[j].hit)
        /\ \A i \in 1..Len(context_parts) :
              context_parts[i].hit = PooledHits[FirstSeen(HitKey(context_parts[i].hit))]

\* both queries return chunk 0, the second with the better score, and the
\* hit of the first query is the one rendered
C14_Witness_SecondQueryScoresHigher ==
    /\ retr_pc = "returned" /\ queries = <<"q1", "q2">>
    /\ \E i \in 1..Len(search_results["q1"]) :
          search_results["q1"][i] = [tech_id |-> "T1", chunk_index |-> 0, score |-> 1]
    /\ \E i \in 1..Len(search_results["q2"]) :
          search_results["q2"][i] = [tech_id |-> "T1", chunk_index |-> 0, score |-> 2]
    /\ \E i \in 1..Len(context_parts) :
          context_parts[i].hit = [tech_id |-> "T1", chunk_index |-> 0, score |-> 1]

\* C15: the blocks are numbered 1, 2, ... in non-increasing order of score,
\* blocks of equal score in the order their hits were first seen; there are
\* at most k * len(queries) blocks; and with no hit at all the context is
\* the empty string.
C15_RankedStableBounded ==
    retr_pc = "returned" =>
        /\ \A i \in 1..Len(context_parts) : context_parts[i].doc = i
        /\ \A i, j \in 1..Len(context_parts) :
              i < j =>
                 /\ context_parts[i].hit.score >= context_parts[j].hit.score
                 /\ context_parts[i].hit.score = context_parts[j].hit.score
                       => FirstSeen(HitKey(context_parts[i].hit))
                            < FirstSeen(HitKey(context_parts[j].hit))
        /\ Len(context_parts)
              <= (IF search_k = 0 THEN retrieval_k ELSE search_k) * Len(queries)
        /\ PooledHits = <<>> => context_parts = <<>>

\* two hits of equal score, chunk 1 seen before chunk 0, are rendered in
\* that order
C15_Witness_TieKeepsFirstSeenOrder ==
    /\ retr_pc = "returned" /\ Len(context_parts) = 2
    /\ HitKey(PooledHits[1]) = <<"T1", 1>>
    /\ context_parts[1].hit.score = 1 /\ context_parts[2].hit.score = 1
    /\ HitKey(context_parts[1].hit) = <<"T1", 1>>
    /\ HitKey(context_parts[2].hit) = <<"T1", 0>>

\* the sort moved the hit of the second query before that of the first
C15_Witness_BetterScoreFirst ==
    /\ retr_pc = "returned" /\ Len(context_parts) = 2
    /\ PooledHits[1].score = 1
    /\ context_parts[1].hit.score = 2 /\ context_parts[2].hit = PooledHits[1]

\* no hit at all gives the empty string
C15_EmptyPool ==
    /\ retr_pc = "returned" /\ Len(queries) = 2 /\ PooledHits = <<>>
    /\ context_parts = <<>>

\* the same queries in another order
Reordered(qs) ==
    /\ Len(qs) = Len(queries)
    /\ { qs[i] : i \in 1..Len(qs) } = { queries[i] : i \in 1..Len(queries) }

\* C16: with the same answers of the store, the queries in any other order
\* give a context with the same chunks, where two chunks rendered with
\* different scores keep their relative order.
C16_QueryOrderOnlyBreaksTies ==
    retr_pc = "returned" =>
        \A qs \in QueryLists :
            Reordered(qs) =>
                LET other == retrieve_context(qs, search_k, search_results)
                IN  /\ RenderedKeys(other) = RenderedKeys(context_parts)
                    /\ \A i, j \in 1..Len(context_parts) :
                          (i < j /\ context_parts[i].hit.score
                                       # context_parts[j].hit.score)
                             => PlaceOf(other, HitKey(context_parts[i].hit))
                                  < PlaceOf(other, HitKey(context_parts[j].hit))

\* C16, the rendered chunks alone: any order of the queries renders the
\* same set of chunks
C16_SameChunksRendered ==
    retr_pc = "returned" =>
        \A qs \in QueryLists :
            Reordered(qs) =>
                RenderedKeys(retrieve_context(qs, search_k, search_results))
                    = RenderedKeys(context_parts)

----------------------------------------------------------------------------
(* Properties of the chunker (specification SpecChunk) *)

\* a call of the DocumentChunker has returned its list of chunks
ChunkerReturned ==
    /\ chunk_pc = "returned"
    /\ chunk_entry \in {"chunk_document", "chunk_by_section"}
SlidingReturned == chunk_pc = "returned" /\ chunk_entry = "chunk_document"

\* C17: the chunk indices of the list a chunker call returns, by sliding
\* window or by section (re-split sections included), are 0, 1, ..., n-1
\* in list order.
C17_ChunkIndicesContiguous ==
    ChunkerReturned =>
        \A n \in 1..Len(chunk_out.value) : chunk_out.value[n].chunk_index = n - 1

\* a section was re-split, and a blank window was dropped between two of
\* its chunks
C17_Witness_ResplitDropsWindow ==
    /\ ChunkerReturned /\ chunk_entry = "chunk_by_section"
    /\ Len(document.table_of_contents) = 1
    /\ chunk_overlap < chunk_size
    /\ \E n \in 1..(Len(chunk_out.value) - 1) :
          chunk_out.value[n + 1].window.start - chunk_out.value[n].window.start
              > chunk_size - chunk_overlap

\* the sliding window dropped a blank window between two chunks
C17_Witness_SlidingDropsWindow ==
    /\ SlidingReturned /\ chunk_overlap < chunk_size /\ chunk_size > 1
    /\ \E n \in 1..(Len(chunk_out.value) - 1) :
          chunk_out.value[n + 1].window.start - chunk_out.value[n].window.start
              > chunk_size - chunk_overlap

Shared(a, b) ==
    IF Min(a.end, b.end) > b.start THEN Min(a.end, b.end) - b.start ELSE 0

\* C19: for chunk_overlap < chunk_size, the windows of two consecutive
\* chunks of chunk_document have exactly chunk_overlap characters in
\* common, unless the second is the last chunk.
C19_ConsecutiveShareOverlap ==
    (SlidingReturned /\ chunk_overlap < chunk_size) =>
        \A n \in 1..(Len(chunk_out.value) - 2) :
            Shared(chunk_out.value[n].window, chunk_out.value[n + 1].window)
                = chunk_overlap

\* C19, for neighbouring windows: when no window was dropped between two
\* chunks and the first window is not cut by the end of the buffer, they
\* have chunk_overlap characters in common
C19_NeighbouringFullWindows ==
    (SlidingReturned /\ chunk_overlap < chunk_size) =>
        \A n \in 1..(Len(chunk_out.value) - 1) :
            LET a == chunk_out.value[n].window
                b == chunk_out.value[n + 1].window
            IN  (b.start = a.start + chunk_size - chunk_overlap
                   /\ a.end = a.start + chunk_size)
                   => Shared(a, b) = chunk_overlap

\* the call ended with an error: an exception, or the error response of
\* the endpoint
ChunkingFailed ==
    \/ chunk_pc = "raised"
    \/ chunk_pc = "returned" /\ chunk_entry = "api_chunk"
           /\ ~chunk_out.value.success

\* C20: with chunk_overlap >= chunk_size chunking ends with an error and
\* returns no chunk list, for every document.
C20_NonPositiveStrideFails ==
    (chunk_pc # "called" /\ chunk_overlap >= chunk_size) => ChunkingFailed

\* C20, the step 0 of the window loops alone: chunk_document and the
\* endpoint fail when chunk_overlap = chunk_size
C20_ZeroStrideSlidingFails ==
    (chunk_pc # "called" /\ chunk_overlap = chunk_size
        /\ chunk_entry \in {"chunk_document", "api_chunk"}) => ChunkingFailed

\* every page of the document is blank, or it has no page
EmptyDocument ==
    \A i \in 1..Len(document.pages) : IsBlank(document.pages[i].full_text)

\* C21: a document without pages, or with blank pages only, with or
\* without a table of contents, gives an empty chunk list and no error
\* under chunk_document and chunk_by_section.
C21_EmptyDocumentGivesNoChunks ==
    (chunk_pc # "called" /\ chunk_overlap < chunk_size
        /\ chunk_entry \in {"chunk_document", "chunk_by_section"}
        /\ EmptyDocument)
        => (chunk_pc = "returned" /\ chunk_out.value = <<>>)

\* C21, all cases but a table of contents without any page
C21_AllButTocWithoutPages ==
    (chunk_pc # "called" /\ chunk_overlap < chunk_size
        /\ chunk_entry \in {"chunk_document", "chunk_by_section"}
        /\ EmptyDocument
        /\ (document.pages # <<>> \/ document.table_of_contents = <<>>))
        => (chunk_pc = "returned" /\ chunk_out.value = <<>>)

\* blank pages under a table of contents give no chunk and no error
C21_BlankPagesWithToc ==
    /\ chunk_pc = "returned" /\ chunk_entry = "chunk_by_section"
    /\ Len(document.pages) = 2 /\ EmptyDocument
    /\ Len(document.table_of_contents) = 2
    /\ chunk_out.value = <<>>


\* the sliding-window chunks of a call that returned them
SlidingChunks ==
    IF /\ chunk_pc = "returned"
       /\ chunk_entry \in {"chunk_document", "chunk_by_section"}
       /\ document.table_of_contents = <<>>
    THEN chunk_out.value ELSE <<>>

\* page_positions of the document, and the entries of it whose offset
\* lies in [start, start + chunk_size)
PagePositions == Combined(document.pages).positions
StartsInWindow(start) ==
    { k \in 1..Len(PagePositions) :
        /\ PagePositions[k][1] >= start
        /\ PagePositions[k][1] < start + chunk_size }
FirstStart(start, page) ==
    CHOOSE k \in StartsInWindow(start) :
        /\ PagePositions[k][2] = page
        /\ \A j \in StartsInWindow(start) : PagePositions[j][2] = page => k <= j

\* C23: page_numbers of a sliding-window chunk lists, in buffer order and
\* without repeats, the pages whose start offset lies in
\* [window_start, window_start + chunk_size); it is [1] when no page
\* starts there, and it is never empty.
C23_PagesStartingInWindow ==
    \A n \in 1..Len(SlidingChunks) :
        LET c == SlidingChunks[n]
            ps == c.page_numbers
            inside == StartsInWindow(c.window.start)
        IN  /\ ps # <<>>
            /\ inside = {} => ps = <<1>>
            /\ inside # {} =>
                  /\ { ps[i] : i \in 1..Len(ps) }
                        = { PagePositions[k][2] : k \in inside }
                  /\ \A i, j \in 1..Len(ps) :
                        i < j => /\ ps[i] # ps[j]
                                 /\ FirstStart(c.window.start, ps[i])
                                      < FirstStart(c.window.start, ps[j])

\* one window holds the starts of pages 1 and 2, and a later window of
\* the same call holds no page start
C23_Witness_TwoStartsThenNone ==
    \E m, n \in 1..Len(SlidingChunks) :
        /\ SlidingChunks[m].page_numbers = <<1, 2>>
        /\ StartsInWindow(SlidingChunks[n].window.start) = {}
        /\ SlidingChunks[n].page_numbers = <<1>>

\* one window holds two starts of the same page number and lists it once
C23_Witness_RepeatedPageListedOnce ==
    \E n \in 1..Len(SlidingChunks) :
        /\ Cardinality(StartsInWindow(SlidingChunks[n].window.start)) = 2
        /\ SlidingChunks[n].page_numbers = <<1>>


\* the characters [from, to) of the buffer that belong to the k-th entry
\* of page_positions: its page marker and its text
SpanOf(k) ==
    [from |-> PagePositions[k][1],
     to |-> IF k < Len(PagePositions) THEN PagePositions[k + 1][1]
            ELSE Len(Combined(document.pages).text)]

\* the page numbers with a character in the window of chunk c
PagesCovered(c) ==
    { PagePositions[k][2] : k \in
        { k \in 1..Len(PagePositions) :
            /\ SpanOf(k).from < c.window.end
            /\ c.window.start < SpanOf(k).to } }

\* C24: page_numbers of a sliding-window chunk are the pages covered by
\* the chunk: a page is listed iff some of its text or of its marker lies
\* in the window of the chunk.
C24_PagesAreThoseCovered ==
    \A n \in 1..Len(SlidingChunks) :
        { SlidingChunks[n].page_numbers[i] :
            i \in 1..Len(SlidingChunks[n].page_numbers) }
            = PagesCovered(SlidingChunks[n])

\* C24, for the chunk that starts at offset 0 of a one-page document
C24_FirstChunkOfOnePage ==
    (SlidingChunks # <<>> /\ Len(document.pages) = 1
        /\ SlidingChunks[1].window.start = 0)
        => SlidingChunks[1].page_numbers = <<1>>


\* a call of chunk_by_section with a table of contents has returned
TocCallReturned ==
    /\ chunk_pc = "returned" /\ chunk_entry = "chunk_by_section"
    /\ document.table_of_contents # <<>>

\* section_text and included_pages of the i-th entry of the table
SectionOf(i) ==
    LET toc == document.table_of_contents
        start_page == toc[i].page
        end_page == IF i < Len(toc) THEN toc[i + 1].page
                    ELSE start_page + DefaultSectionPages
    IN  SectionFrom(document.pages, start_page,
                    Min(end_page, MaxPageNumber(document.pages) + 1))

\* the starts of the windows of a text that are not blank, and the j-th
\* of them
WindowStarts(text) ==
    { s \in 0..(Len(text) - 1) :
        /\ s % (chunk_size - chunk_overlap) = 0
        /\ ~IsBlank(Slice(text, s, s + chunk_size)) }
NthStart(text, j) ==
    CHOOSE s \in WindowStarts(text) :
        Cardinality({ t \in WindowStarts(text) : t < s }) = j - 1

\* what the i-th section is to give when the counter stands at first
SectionChunks(i, first) ==
    LET text == SectionOf(i).text
        title == document.table_of_contents[i].title
        pages == SectionOf(i).included
    IN  IF IsBlank(text) THEN <<>>
        ELSE IF Len(text) <= 2 * chunk_size
        THEN << [chunk_index |-> first, content |-> Strip(text),
                 section |-> title, page_numbers |-> pages] >>
        ELSE [ j \in 1..Cardinality(WindowStarts(text)) |->
                 [chunk_index |-> first + j - 1,
                  content |-> Strip(Slice(text, NthStart(text, j),
                                          NthStart(text, j) + chunk_size)),
                  section |-> title, page_numbers |-> pages] ]

RECURSIVE SectionsFrom(_, _)
SectionsFrom(i, first) ==
    IF i > Len(document.table_of_contents) THEN <<>>
    ELSE SectionChunks(i, first)
            \o SectionsFrom(i + 1, first + Len(SectionChunks(i, first)))

Emitted ==
    [ n \in 1..Len(chunk_out.value) |->
        [chunk_index |-> chunk_out.value[n].chunk_index,
         content |-> chunk_out.value[n].content,
         section |-> chunk_out.value[n].section,
         page_numbers |-> chunk_out.value[n].page_numbers] ]

\* C25: with a table of contents, a section whose text is not blank and
\* not longer than 2 * chunk_size gives one chunk with the whole trimmed
\* text; a longer section gives the sliding-window chunks of its own text
\* (window chunk_size, step chunk_size - chunk_overlap), all under the
\* title of the section, and the indices go on from the previous section.
C25_SectionsOneChunkOrResplit ==
    (TocCallReturned /\ chunk_overlap < chunk_size)
        => Emitted = SectionsFrom(1, 0)

\* the first section gives one chunk and the second, longer than
\* 2 * chunk_size, is split again into chunks 1 and 2
C25_Witness_OneChunkThenResplit ==
    /\ TocCallReturned /\ chunk_overlap < chunk_size
    /\ Len(document.table_of_contents) = 2
    /\ ~IsBlank(SectionOf(1).text)
    /\ Len(SectionOf(1).text) <= 2 * chunk_size
    /\ Len(SectionOf(2).text) > 2 * chunk_size
    /\ Len(chunk_out.value) = 3
    /\ chunk_out.value[2].chunk_index = 1
    /\ chunk_out.value[3].chunk_index = 2
    /\ chunk_out.value[3].section = "S"


\* the page numbers of the document whose text is not blank
TextPages ==
    { document.pages[i].page_number :
        i \in { i \in 1..Len(document.pages) :
                  ~IsBlank(document.pages[i].full_text) } }

\* the page numbers some returned chunk lists
ListedPages ==
    UNION { { chunk_out.value[n].page_numbers[i] :
                i \in 1..Len(chunk_out.value[n].page_numbers) } :
            n \in 1..Len(chunk_out.value) }

\* C29: with a table of contents no text is lost: every page with text is
\* in the page_numbers of some returned chunk, the pages before the first
\* entry and those more than 5 pages behind the last entry included.
C29_NoPageWithTextLost ==
    (TocCallReturned /\ chunk_overlap < chunk_size)
        => TextPages \subseteq ListedPages

\* C29 for the pages an entry of the table reaches: from the page of an
\* entry up to the page of the next entry, or 5 pages for the last one
ReachedPages ==
    UNION { { p \in TextPages :
                /\ p >= document.table_of_contents[i].page
                /\ p < IF i < Len(document.table_of_contents)
                       THEN document.table_of_contents[i + 1].page
                       ELSE document.table_of_contents[i].page
                                + DefaultSectionPages } :
            i \in 1..Len(document.table_of_contents) }
C29_ReachedPagesKept ==
    (TocCallReturned /\ chunk_overlap < chunk_size)
        => ReachedPages \subseteq ListedPages


\* C26: index_documents returns the number of records it indexed: the
\* number returned is the number of records of the input the call has
\* written to the store; skipped records and the records of a failed bulk
\* request are not counted.
C26_ReturnsRecordsWritten ==
    \A w \in Writers :
        (w_pc[w] = "idle" /\ w_ret[w] # <<>>) => w_ret[w] = <<w_stored[w]>>

\* C26 for LocalVectorStore, which writes and counts every record
C26_LocalCountsWhatItWrites ==
    store_impl = "LocalVectorStore" =>
        \A w \in Writers : w_ret[w] # <<>> => w_ret[w] = <<w_stored[w]>>

\* C26 for a bulk request of which every record has a vector and no item
\* fails
C26_FullBatchCounted ==
    \A w \in Writers :
        (/\ store_impl = "OpenSearchVectorStore"
         /\ w_pc[w] = "idle" /\ w_ret[w] # <<>> /\ w_ret[w] # <<0>>
         /\ BulkBody(new_documents) = new_documents)
            => w_ret[w] = <<w_stored[w]>>


\* C26 for the calls whose bulk request went through without an error:
\* the number returned is the number of records written
C26_CleanBulkCountsWritten ==
    \A w \in Writers :
        (/\ store_impl = "OpenSearchVectorStore"
         /\ w_pc[w] = "idle" /\ w_ret[w] # <<>> /\ w_ret[w] # <<0>>)
            => w_ret[w] = <<w_stored[w]>>


\* the response carried a JSON object with a number under "score"
NumericJudgment(r) == r.shape = "object" /\ r.score_kind = "number"

\* C27: for a result parsed from a parseable judgment with a score in
\* [0, 5], whole or not, with or without an entry in the grade map, the
\* grade is fair, good or excellent iff the pass flag is true; poor and
\* unacceptable go with a false pass flag.
C27_GradeAgreesWithPass ==
    (/\ parsed # <<>> /\ NumericJudgment(response.text)
     /\ response.text.score >= 0
     /\ response.text.score <= MaxScore * ScoreDenom)
        => /\ parsed[1].grade \in {"fair", "good", "excellent"}
                <=> parsed[1].pass_status
           /\ parsed[1].grade \in {"poor", "unacceptable"}
                => ~parsed[1].pass_status

\* C27 for the whole scores 1 to 5, the keys of the grade map
C27_MapKeysAgree ==
    (/\ parsed # <<>> /\ NumericJudgment(response.text)
     /\ response.text.score \in { Sc(n) : n \in 1..MaxScore })
        => (parsed[1].grade \in {"fair", "good", "excellent"}
                <=> parsed[1].pass_status)

\* C28: a result with a true pass flag comes only from a response whose
\* JSON has a numeric score of at least 3; valid JSON without a score
\* field never passes.
C28_PassNeedsExplicitScore ==
    (parsed # <<>> /\ parsed[1].pass_status)
        => /\ NumericJudgment(response.text)
           /\ response.text.score >= Sc(PassThreshold)

\* C28 for the responses that carry a score field
C28_GivenScoreBelowThreeFails ==
    (/\ parsed # <<>> /\ parsed[1].pass_status
     /\ response.text.score_kind # "absent")
        => /\ NumericJudgment(response.text)
           /\ response.text.score >= Sc(PassThreshold)


----------------------------------------------------------------------------
(* Properties of EvaluationPipeline (specification SpecPipeline) *)

\* C22: after any sequence of process_document calls, documents of the
\* same tech_id included, no two chunks of one submission have the same
\* chunk index, so no chunk replaces another chunk of its submission in
\* the vector store.
C22_ChunkIndexUniquePerSubmission ==
    \A a, b \in 1..Len(produced) :
        (a # b /\ produced[a].chunk.tech_id = produced[b].chunk.tech_id)
            => produced[a].chunk.chunk_index # produced[b].chunk.chunk_index

\* C22 for the chunks of one process_document call
C22_UniqueWithinOneDocument ==
    \A a, b \in 1..Len(produced) :
        (a # b /\ produced[a].call = produced[b].call)
            => produced[a].chunk.chunk_index # produced[b].chunk.chunk_index

\* C22 for runs in which every document has a tech_id of its own
C22_UniqueForDistinctTechIds ==
    (\A i, j \in 1..Len(json_paths) :
        i # j => json_paths[i].metadata.tech_id # json_paths[j].metadata.tech_id)
        => C22_ChunkIndexUniquePerSubmission


----------------------------------------------------------------------------
(* Properties of the KISTIClient token lifecycle (specification SpecToken) *)

\* C30: whenever ensure_valid_token returns True the client holds a
\* non-empty access token whose recorded expiry is in the future, and
\* ensure_valid_token never replaces a valid access token.
C30_EnsureTrueMeansValidToken ==
    /\ (token_call.op = "ensure_valid_token" /\ token_call.value)
          => is_access_token_valid(token_info, now)
    /\ (token_call.op = "ensure_valid_token" /\ token_call.was_valid)
          => token_call.kept

\* C30, second part alone: a valid access token is left as it is, and the
\* call returns True
C30_ValidTokenKept ==
    (token_call.op = "ensure_valid_token" /\ token_call.was_valid)
        => token_call.kept /\ token_call.value

====
